---- MODULE Spec2Model ----
(***************************************************************************)
(* bu-hub: ride requests, conversations between two ride requests and the  *)
(* two-phase mutual confirmation handshake.                                *)
(*                                                                         *)
(* Modelled from server/controller/conversationController.js,              *)
(* server/controller/rideController.js and server/model/index.js.          *)
(*                                                                         *)
(* The store is three collections.  `rides` and `convs` are functions      *)
(* whose DOMAIN is the set of documents that exist (findById returns null  *)
(* exactly for an id outside the DOMAIN); `users` maps every user to its   *)
(* document.  ObjectIds are small naturals handed out in order; the null   *)
(* reference is 0.                                                         *)
(***************************************************************************)
EXTENDS Integers, Sequences, FiniteSets, TLC

\* Number of RideRequest documents one user creates in one behaviour.
MaxRidesPerUser == 1

\* The authenticated users (req.user._id).
Users == {1, 2, 3, 4}

\* The users that act under Spec.
SpecUsers == {1, 2, 3}

\* Fresh ObjectIds.  The g-th ride of user u and the conversation that the
\* owner of ride a initiates towards ride b get ids of their own, so two
\* documents never share an id whatever the order of the calls.
rideIdOf(u, g) == (u - 1) * MaxRidesPerUser + g
RideIds == 1..(MaxRidesPerUser * Cardinality(Users))
convIdOf(a, b) == (a - 1) * Cardinality(RideIds) + b
ConvIds == 1..(Cardinality(RideIds) * Cardinality(RideIds))

\* Number of Conversation documents created in one behaviour of Spec.
MaxConvs == 2

VARIABLES
    rides,        \* RideRequest collection: id -> [userId, destination,
                  \*   departureTime, status, conversations]
    users,        \* User collection: user -> [currentRideRequest, requestCount]
    convs,        \* Conversation collection: id -> [rideRequestA, rideRequestB,
                  \*   messages, expiresAt]
    created,      \* per user: how many rides the user has created so far
    lastOp,       \* the last call that succeeded and its HTTP response
    confirmedBy,  \* history: users whose confirm call on a conversation returned 200
    txn,          \* per user: the transaction attempt in flight, if any
    race,         \* history of the confirm/decline race being observed
    now,          \* the server's clock, in minutes
    sessions      \* per user: the socket of the user, its rooms and what it received

vars == <<rides, users, convs, created, lastOp, confirmedBy, txn, race, now, sessions>>

store == <<rides, users, convs>>

\* Ref statuses from which a ref may still move on.
ActiveStatuses == {"pending", "awaiting_confirmation"}

----------------------------------------------------------------------------
(* Helpers over one RideRequest document                                   *)

findConvRef_anyActive(ride, cid) ==
    LET S == {i \in 1..Len(ride.conversations) :
                 ride.conversations[i].status \in ActiveStatuses}
    IN  IF S = {} THEN 0 ELSE CHOOSE i \in S : \A j \in S : i <= j

\* ride.conversations.find(c => c.conversationId.equals(cid)): the index of
\* the first matching entry, 0 when there is none (undefined).
findConvRef(ride, cid) ==
    LET S == {i \in 1..Len(ride.conversations) :
                 ride.conversations[i].conversationId = cid}
    IN  IF S = {} THEN 0 ELSE CHOOSE i \in S : \A j \in S : i <= j

hasActive_anyRef(ride) == Len(ride.conversations) > 0

\* ride.conversations.some(c => ['pending','awaiting_confirmation'].includes(c.status))
hasActive(ride) ==
    \E i \in 1..Len(ride.conversations) :
        ride.conversations[i].status \in ActiveStatuses

hasOtherActiveExcept_anyRef(ride, cid) == Len(ride.conversations) > 0

\* deleteRideRequest's hasOtherActive: some ref other than cid that is
\* pending, awaiting_confirmation or confirmed.
hasOtherActiveExcept(ride, cid) ==
    \E i \in 1..Len(ride.conversations) :
        /\ ride.conversations[i].status \in {"pending", "awaiting_confirmation", "confirmed"}
        /\ ride.conversations[i].conversationId # cid

\* doc.save({session}): Mongoose writes the paths modified since the
\* document was loaded (orig) onto the stored document (a changed ref is
\* set at its index, a pushed ref is appended to the stored array); an
\* unmodified document is not written at all.
save(R, id, orig, mem) ==
    IF id \notin DOMAIN R \/ mem = orig THEN R
    ELSE [R EXCEPT ![id] =
            [@ EXCEPT
               !.status = IF mem.status # orig.status THEN mem.status ELSE @,
               !.conversations =
                  [i \in 1..Len(@) |->
                      IF i <= Len(orig.conversations)
                         /\ mem.conversations[i] # orig.conversations[i]
                      THEN mem.conversations[i]
                      ELSE @[i]]
                  \o SubSeq(mem.conversations, Len(orig.conversations) + 1,
                            Len(mem.conversations))]]

Reject_serverError(R, code) == [rides |-> R, code |-> 500, msg |-> "error"]

\* The HTTP response of a handler that threw: nothing of the transaction
\* is committed.
Reject(R, code) == [rides |-> R, code |-> code, msg |-> "error"]

----------------------------------------------------------------------------
(* initiateConversation: the body of its transaction                       *)

isLocked_never(ride) == FALSE

\* initiateConversation's status check on either ride.
isLocked(ride) == ride.status = "Confirmed"

existingConversation_never(C, me, target) == FALSE

\* Conversation.findOne({$or: [{A: me, B: target}, {A: target, B: me}]}):
\* some Conversation document links the two rides, whatever the status of
\* its refs.
existingConversation(C, me, target) ==
    \E c \in DOMAIN C :
        \/ C[c].rideRequestA = me /\ C[c].rideRequestB = target
        \/ C[c].rideRequestA = target /\ C[c].rideRequestB = me

promote_never(st) == st

\* initiateConversation's status update: Available becomes Pending.
promote(st) == IF st = "Available" THEN "Pending" ELSE st

\* Hours a Conversation outlives the earlier departure; times are in minutes.
CONVERSATION_EXPIRY_BUFFER_HOURS == 2

earlierDepartureTime_later(initiatorRide, targetRide) ==
    IF initiatorRide.departureTime < targetRide.departureTime
    THEN targetRide.departureTime ELSE initiatorRide.departureTime

\* The earlier of the two departure times.
earlierDepartureTime(initiatorRide, targetRide) ==
    IF initiatorRide.departureTime < targetRide.departureTime
    THEN initiatorRide.departureTime ELSE targetRide.departureTime

\* new Date(earlierDepartureTime.getTime() + BUFFER_HOURS * 60 * 60 * 1000)
expiresAt(initiatorRide, targetRide) ==
    earlierDepartureTime(initiatorRide, targetRide)
        + CONVERSATION_EXPIRY_BUFFER_HOURS * 60

\* Returns the rides and conversations the transaction leaves and the
\* HTTP status.  u is the authenticated user, target the targetRideId of
\* the request body (any well-formed id, existing or not), cid the _id the
\* new Conversation document gets.
initiateConversation(R, U, C, u, target, cid) ==
    LET me == U[u].currentRideRequest
        fail(code) == [rides |-> R, convs |-> C, code |-> code]
    IN
    IF me = 0 THEN fail(404)
    ELSE IF me = target THEN fail(400)
    ELSE IF me \notin DOMAIN R \/ target \notin DOMAIN R THEN fail(404)
    ELSE IF isLocked(R[me]) THEN fail(409)
    ELSE IF isLocked(R[target]) THEN fail(409)
    ELSE IF existingConversation(C, me, target) THEN fail(409)
    ELSE
        LET entry(rid) == [rideId |-> rid, status |-> "pending", conversationId |-> cid]
            memI == [R[me] EXCEPT !.status = promote(@),
                                  !.conversations = Append(@, entry(target))]
            memT == [R[target] EXCEPT !.status = promote(@),
                                      !.conversations = Append(@, entry(me))]
            R1 == save(R, me, R[me], memI)
            R2 == save(R1, target, R[target], memT)
        IN [rides |-> R2,
            convs |-> [c \in DOMAIN C \cup {cid} |->
                          IF c = cid THEN [rideRequestA |-> me, rideRequestB |-> target,
                                          messages |-> <<>>,
                                          expiresAt |-> expiresAt(R[me], R[target])]
                          ELSE C[c]],
            code  |-> 201]

----------------------------------------------------------------------------
(* confirmRide and its helper processOtherPending                          *)

declineCounterpart_all(R, convRef) ==
    IF convRef.rideId \notin DOMAIN R THEN R
    ELSE
        LET otherRideInConv == R[convRef.rideId]
            o2 == [otherRideInConv EXCEPT
                      !.conversations =
                          [k \in DOMAIN @ |->
                              IF @[k].status \in {"pending", "awaiting_confirmation"}
                              THEN [@[k] EXCEPT !.status = "declined"] ELSE @[k]],
                      !.status = IF @ = "Pending" THEN "Available" ELSE @]
        IN [R EXCEPT ![convRef.rideId] = o2]

declineCounterpart_skip(R, convRef) == R

\* processOtherPending, the update of the *other* ride of a ref that was
\* just declined: the ride is loaded from the transaction's view R, its
\* mirrored ref declined when it is pending or awaiting_confirmation, its
\* status set to Available when nothing active is left and it was
\* Pending, and it is saved.
declineCounterpart(R, convRef) ==
    IF convRef.rideId \notin DOMAIN R THEN R
    ELSE
        LET otherRideInConv == R[convRef.rideId]
            j == findConvRef(otherRideInConv, convRef.conversationId)
        IN
        IF j # 0 /\ otherRideInConv.conversations[j].status \in ActiveStatuses
        THEN
            LET o2 == [otherRideInConv EXCEPT !.conversations[j].status = "declined"]
                o3 == IF ~hasActive(o2) /\ o2.status = "Pending"
                      THEN [o2 EXCEPT !.status = "Available"]
                      ELSE o2
            IN save(R, convRef.rideId, otherRideInConv, o3)
        ELSE R

\* The loop of processOtherPending over rideToProcess (mem, the in-memory
\* document) from index i on: every other pending or
\* awaiting_confirmation ref of mem is declined, and so is its mirror.
RECURSIVE processOtherPendingFrom(_, _, _, _)
processOtherPendingFrom(mem, mutuallyConfirmedConversationId, R, i) ==
    IF i > Len(mem.conversations) THEN [mem |-> mem, rides |-> R]
    ELSE
        LET convRef == mem.conversations[i] IN
        IF \/ convRef.conversationId = mutuallyConfirmedConversationId
           \/ convRef.status \in {"confirmed", "declined"}
        THEN processOtherPendingFrom(mem, mutuallyConfirmedConversationId, R, i + 1)
        ELSE
            LET mem2 == [mem EXCEPT !.conversations[i].status = "declined"]
                R2 == declineCounterpart(R, convRef)
            IN processOtherPendingFrom(mem2, mutuallyConfirmedConversationId, R2, i + 1)

processOtherPending_none(rideToProcess, mutuallyConfirmedConversationId, R) ==
    [mem |-> rideToProcess, rides |-> R]

processOtherPending(rideToProcess, mutuallyConfirmedConversationId, R) ==
    processOtherPendingFrom(rideToProcess, mutuallyConfirmedConversationId, R, 1)

alreadyConfirmed_orAwaiting(ownStatus) ==
    ownStatus \in {"confirmed", "awaiting_confirmation"}

\* confirmRide rejects the confirmer whose own ref is confirmed already.
alreadyConfirmed(ownStatus) == ownStatus = "confirmed"

mutualRideStatus_unchanged == "Pending"

\* The ride status both rides get on mutual confirmation.
mutualRideStatus == "Confirmed"

isMutual_onPending(otherStatus) == otherStatus \in {"pending", "awaiting_confirmation"}

\* confirmRide takes its second stage (mutual confirmation) when the
\* counterpart's ref is awaiting_confirmation.
isMutual(otherStatus) == otherStatus = "awaiting_confirmation"

isFirstConfirmation_else(otherStatus) == TRUE

\* confirmRide takes its first stage when the counterpart's ref is pending.
isFirstConfirmation(otherStatus) == otherStatus = "pending"

confirmSuccessStatus_conflict == 409

\* res.status(200) once confirmRide's transaction has committed.
confirmSuccessStatus == 200

\* The body of confirmRide's transaction: u confirms conversation cid.
confirmRide(R, C, u, cid) ==
    IF cid \notin DOMAIN C THEN Reject(R, 404)
    ELSE
    LET a == C[cid].rideRequestA
        b == C[cid].rideRequestB
    IN
    IF a \notin DOMAIN R \/ b \notin DOMAIN R THEN Reject(R, 404)
    ELSE IF R[a].userId # u /\ R[b].userId # u THEN Reject(R, 403)
    ELSE
    LET me == IF R[a].userId = u THEN a ELSE b
        ot == IF R[a].userId = u THEN b ELSE a
        confirmerRide == R[me]
        otherPartyRide == R[ot]
        i == findConvRef(confirmerRide, cid)
        j == findConvRef(otherPartyRide, cid)
    IN
    IF confirmerRide.status = "Confirmed" \/ otherPartyRide.status = "Confirmed"
    THEN Reject(R, 409)
    ELSE IF i = 0 \/ j = 0 THEN Reject(R, 500)
    ELSE IF alreadyConfirmed(confirmerRide.conversations[i].status) THEN Reject(R, 409)
    ELSE IF isMutual(otherPartyRide.conversations[j].status)
    THEN \* Stage 2: mutual confirmation, then the cascade on both rides
        LET memC == [confirmerRide EXCEPT !.conversations[i].status = "confirmed",
                                          !.status = mutualRideStatus]
            memO == [otherPartyRide EXCEPT !.conversations[j].status = "confirmed",
                                           !.status = mutualRideStatus]
            p1 == processOtherPending(memC, cid, R)
            p2 == processOtherPending(memO, cid, p1.rides)
            R3 == save(p2.rides, me, confirmerRide, p1.mem)
            R4 == save(R3, ot, otherPartyRide, p2.mem)
        IN [rides |-> R4, code |-> confirmSuccessStatus, msg |-> "mutual"]
    ELSE IF isFirstConfirmation(otherPartyRide.conversations[j].status)
    THEN \* Stage 1: first confirmation, the rides stay as they are
        LET memC == [confirmerRide EXCEPT
                        !.conversations[i].status = "awaiting_confirmation"]
        IN [rides |-> save(R, me, confirmerRide, memC), code |-> confirmSuccessStatus,
            msg |-> "recorded"]
    ELSE Reject(R, 409)

----------------------------------------------------------------------------
(* declineConversation: the body of its transaction                        *)

declineConversation(R, C, u, cid) ==
    IF cid \notin DOMAIN C THEN Reject(R, 404)
    ELSE
    LET a == C[cid].rideRequestA
        b == C[cid].rideRequestB
    IN
    IF a \notin DOMAIN R \/ b \notin DOMAIN R THEN Reject(R, 404)
    ELSE IF R[a].userId # u /\ R[b].userId # u THEN Reject(R, 403)
    ELSE IF R[a].status = "Confirmed" \/ R[b].status = "Confirmed" THEN Reject(R, 409)
    ELSE
    LET declineRef(ride) ==
            LET k == findConvRef(ride, cid) IN
            IF k # 0 /\ ride.conversations[k].status \in ActiveStatuses
            THEN [ride EXCEPT !.conversations[k].status = "declined"]
            ELSE ride
        demote(ride) ==
            IF ~hasActive(ride) /\ ride.status = "Pending"
            THEN [ride EXCEPT !.status = "Available"]
            ELSE ride
        memA == demote(declineRef(R[a]))
        memB == demote(declineRef(R[b]))
        R1 == save(R, a, R[a], memA)
        R2 == save(R1, b, R[b], memB)
    IN [rides |-> R2, code |-> 200, msg |-> "declined"]

----------------------------------------------------------------------------
(* deleteRideRequest                                                       *)

\* Step 3 of deleteRideRequest's transaction, from index i of the deleted
\* ride's refs on: for every ref that is pending, awaiting_confirmation or
\* confirmed, the counterpart ride is loaded, its mirrored ref declined
\* unless it already is, its status set to Available when it has no other
\* pending, awaiting_confirmation or confirmed ref, and it is saved.
\* affected collects what is emitted after the transaction.
RECURSIVE processCounterpartsFrom(_, _, _, _)
processCounterpartsFrom(rideToDelete, R, affected, i) ==
    IF i > Len(rideToDelete.conversations) THEN [rides |-> R, affected |-> affected]
    ELSE
        LET convRef == rideToDelete.conversations[i] IN
        IF convRef.status \notin {"pending", "awaiting_confirmation", "confirmed"}
           \/ convRef.rideId \notin DOMAIN R
        THEN processCounterpartsFrom(rideToDelete, R, affected, i + 1)
        ELSE
            LET counterpartRide == R[convRef.rideId]
                j == findConvRef(counterpartRide, convRef.conversationId)
            IN
            IF j = 0 \/ counterpartRide.conversations[j].status = "declined"
            THEN processCounterpartsFrom(rideToDelete, R, affected, i + 1)
            ELSE
                LET c2 == [counterpartRide EXCEPT !.conversations[j].status = "declined"]
                    c3 == IF ~hasOtherActiveExcept(c2, convRef.conversationId)
                             /\ c2.status # "Available"
                          THEN [c2 EXCEPT !.status = "Available"]
                          ELSE c2
                IN processCounterpartsFrom(
                       rideToDelete,
                       save(R, convRef.rideId, counterpartRide, c3),
                       Append(affected, [conversationId |-> convRef.conversationId,
                                         counterpartRideId |-> convRef.rideId,
                                         counterpartRideStatus |-> c3.status]),
                       i + 1)

\* The body of deleteRideRequest's transaction.  A throw aborts the
\* transaction, so the reference cleared before the 404 of a dangling
\* currentRideRequest is rolled back with it.  rideRequestIdToDelete is the
\* id removed after a commit (0: nothing to remove).
deleteRideTransaction(R, U, u) ==
    LET id == U[u].currentRideRequest
        fail(code) == [rides |-> R, users |-> U, code |-> code,
                       rideRequestIdToDelete |-> 0, affected |-> <<>>]
    IN
    IF id = 0 THEN fail(404)
    ELSE IF id \notin DOMAIN R THEN fail(404)
    ELSE
        LET p == processCounterpartsFrom(R[id], R, <<>>, 1)
        IN [rides |-> p.rides,
            users |-> [U EXCEPT ![u].currentRideRequest = 0],
            code  |-> 200,
            rideRequestIdToDelete |-> id,
            affected |-> p.affected]

\* RideRequest.findByIdAndDelete(id), outside the transaction.
findByIdAndDelete(R, id) == [r \in DOMAIN R \ {id} |-> R[r]]

\* The 'conversationUpdate' event deleteRideRequest emits for one entry of
\* affectedConversations.
conversationUpdate(affected) ==
    [eventName |-> "conversationUpdate",
     conversationId |-> affected.conversationId,
     rideAStatus |-> "Deleted",
     rideBStatus |-> affected.counterpartRideStatus,
     conversationStatusA |-> "declined",
     conversationStatusB |-> "declined"]

\* affectedConversations.forEach(...): the events in the order emitted.
conversationUpdates(affectedConversations) ==
    [i \in 1..Len(affectedConversations) |-> conversationUpdate(affectedConversations[i])]

emitToConversation_broadcast(S, event) ==
    [s \in DOMAIN S |-> IF S[s].connected
                        THEN [S[s] EXCEPT !.received = Append(@, event)]
                        ELSE S[s]]

\* socketManager's emitToConversation on the sockets S:
\* io.to(conversationId).emit hands the event to every socket that has
\* joined the room of the conversation.
emitToConversation(S, event) ==
    [s \in DOMAIN S |-> IF event.conversationId \in S[s].rooms
                        THEN [S[s] EXCEPT !.received = Append(@, event)]
                        ELSE S[s]]

\* The events of a call emitted one after the other, from index i on.
RECURSIVE emitFrom(_, _, _)
emitFrom(S, events, i) ==
    IF i > Len(events) THEN S
    ELSE emitFrom(emitToConversation(S, events[i]), events, i + 1)

----------------------------------------------------------------------------
(* createRideRequest                                                       *)

\* Times are minutes since the midnight that starts day 0.
MinutesPerDay == 1440

\* The calendar day of an instant: what getDate, getMonth and getFullYear
\* tell apart.
dayOf(t) == t \div MinutesPerDay

\* RideRequestSchema.path('destination').enumValues
allowedDestinations == {"Airport", "Train Station", "Bus Terminal"}

\* The number of rides a user can create in a day.
MAX_DAILY_REQUESTS == 50

\* Minutes 00 or 30 (seconds and milliseconds are not modelled).
allowedSlot(departure) == departure % 60 \in {0, 30}

\* UserSchema.methods.resetDailyCountIfNeeded at instant t.
resetDailyCountIfNeeded(user, t) ==
    IF dayOf(t) # dayOf(user.requestCount.lastReset)
    THEN [user EXCEPT !.requestCount = [count |-> 0, lastReset |-> t]]
    ELSE user

\* UserSchema.methods.incrementRequestCount at instant t.
incrementRequestCount(user, t) ==
    LET r == resetDailyCountIfNeeded(user, t)
    IN [r EXCEPT !.requestCount.count = @ + 1]

\* What createRideRequest answers before it reads the store: 400 for a
\* departure that is not in the future, is off the half-hour slots or for
\* a destination outside the enum, 0 for a request that goes on.
validateRideRequest(destination, departureTime, t) ==
    IF departureTime <= t THEN 400
    ELSE IF ~allowedSlot(departureTime) THEN 400
    ELSE IF destination \notin allowedDestinations THEN 400
    ELSE 0

\* The in-memory user document after the checks of createRideRequest that
\* read the store, and the answer of a check that rejects: 409 while
\* currentRideRequest names an existing ride (a dangling reference is
\* cleared in memory), 429 when the daily count, reset on a new day, has
\* reached the maximum, 0 to go on.
checkUser(R, user, t) ==
    IF user.currentRideRequest # 0 /\ user.currentRideRequest \in DOMAIN R
    THEN [user |-> user, code |-> 409]
    ELSE
        LET cleared == [user EXCEPT !.currentRideRequest = 0]
            counted == resetDailyCountIfNeeded(cleared, t)
        IN [user |-> counted,
            code |-> IF counted.requestCount.count >= MAX_DAILY_REQUESTS
                     THEN 429 ELSE 0]

\* newRideRequest.save(): the ride document of a new request.
newRideRequest(u, destination, departureTime) ==
    [userId |-> u, destination |-> destination, departureTime |-> departureTime,
     status |-> "Available", conversations |-> <<>>]

\* RideRequest.insert of document doc under the fresh id.
insertRide(R, id, doc) == [r \in DOMAIN R \cup {id} |-> IF r = id THEN doc ELSE R[r]]

\* The last lines of createRideRequest on the in-memory user document: the
\* count is incremented and the new ride linked.
linkRide(user, id, t) == [incrementRequestCount(user, t) EXCEPT !.currentRideRequest = id]

\* The handler run to completion at instant t.  A rejected request stores
\* nothing: the in-memory reset of the count before a 429 is never saved.
createRideRequest(R, U, u, id, destination, departureTime, t) ==
    LET invalid == validateRideRequest(destination, departureTime, t)
        checked == checkUser(R, U[u], t)
    IN
    IF invalid # 0 THEN [rides |-> R, users |-> U, code |-> invalid]
    ELSE IF checked.code # 0 THEN [rides |-> R, users |-> U, code |-> checked.code]
    ELSE [rides |-> insertRide(R, id, newRideRequest(u, destination, departureTime)),
          users |-> [U EXCEPT ![u] = linkRide(checked.user, id, t)],
          code  |-> 201]

----------------------------------------------------------------------------
(* sendMessage                                                             *)

\* The longest message content sendMessage accepts.
MaxContentLength == 500

\* The number of messages a Conversation keeps.
MessageLimit == 20

\* The lengths of the content of a request body: none, some text, too long.
ContentLengths == {0, 3, MaxContentLength + 1}

isParticipant_always(R, conversation, senderId) == TRUE

\* sendMessage's check on the populated conversation: the sender owns
\* rideRequestA or rideRequestB (a ride that no longer exists populates as
\* null and matches nobody).
isParticipant(R, conversation, senderId) ==
    \/ /\ conversation.rideRequestA \in DOMAIN R
       /\ R[conversation.rideRequestA].userId = senderId
    \/ /\ conversation.rideRequestB \in DOMAIN R
       /\ R[conversation.rideRequestB].userId = senderId

trimMessages_atLimit(messages) ==
    IF Len(messages) >= MessageLimit
    THEN SubSeq(messages, Len(messages) - MessageLimit + 2, Len(messages))
    ELSE messages

\* ConversationSchema.pre('save'): only the 20 most recent messages stay.
trimMessages(messages) ==
    IF Len(messages) > MessageLimit
    THEN SubSeq(messages, Len(messages) - MessageLimit + 1, Len(messages))
    ELSE messages

\* sendMessage: u sends content of the given length to conversation cid;
\* expired is the outcome of new Date() > conversation.expiresAt.  Returns
\* the conversations the call leaves and the HTTP status.
sendMessage(C, R, u, cid, length, expired) ==
    LET fail(code) == [convs |-> C, code |-> code] IN
    IF length = 0 THEN fail(400)
    ELSE IF length > MaxContentLength THEN fail(400)
    ELSE IF cid \notin DOMAIN C THEN fail(404)
    ELSE IF ~isParticipant(R, C[cid], u) THEN fail(403)
    ELSE IF expired THEN fail(410)
    ELSE IF Len(C[cid].messages) >= MessageLimit THEN fail(409)
    ELSE
        LET newMessage == [senderId |-> u, length |-> length] IN
        [convs |-> [C EXCEPT ![cid].messages = trimMessages(Append(@, newMessage))],
         code  |-> 201]

----------------------------------------------------------------------------
(* The state machine: every call runs to completion.  A call that is       *)
(* rejected (a 4xx or 5xx response) commits nothing, so it is no step of   *)
(* the machine: the guard of each action is that the handler succeeds.     *)
(* What a rejected call answers is read off the handler's operator.        *)

\* What the caller observes of a call that succeeded.
\* events are the events the call published, in order; matches is the list
\* a findMatches call returned.
Response(op, u, arg, code, msg, changed) ==
    [op |-> op, user |-> u, arg |-> arg, code |-> code, msg |-> msg,
     changed |-> changed, events |-> <<>>, matches |-> <<>>]

\* A socket that is not connected.
NoSession == [connected |-> FALSE, rooms |-> {}, received |-> <<>>]

\* The request every rider sends where the destination and the time of
\* departure do not matter.
DefaultDestination == "Airport"
DefaultDeparture == 120

NoTxn == [op |-> "none"]
NoRace == [phase |-> "idle"]

\* The conversation ids a call may name: every conversation that exists
\* and one id of no document.
ConvInputs == DOMAIN convs \cup {0}

Init ==
    /\ rides = <<>>
    /\ users = [u \in Users |-> [currentRideRequest |-> 0,
                                  requestCount |-> [count |-> 0, lastReset |-> 0]]]
    /\ convs = <<>>
    /\ created = [u \in Users |-> 0]
    /\ lastOp = Response("none", 0, 0, 0, "none", FALSE)
    /\ confirmedBy = [c \in ConvIds |-> {}]
    /\ txn = [u \in Users |-> NoTxn]
    /\ race = NoRace
    /\ now = 0
    /\ sessions = [u \in Users |-> NoSession]

Quiescent == \A u \in Users : txn[u] = NoTxn

CreateRideWith(u, destination, departureTime) ==
    /\ Quiescent
    /\ LET res == createRideRequest(rides, users, u, rideIdOf(u, created[u] + 1),
                                    destination, departureTime, now) IN
       /\ res.code = 201
       /\ created[u] < MaxRidesPerUser
       /\ rides' = res.rides
       /\ users' = res.users
       /\ created' = [created EXCEPT ![u] = @ + 1]
       /\ lastOp' = Response("createRide", u, rideIdOf(u, created[u] + 1), res.code,
                              "none", TRUE)
    /\ race' = NoRace
    /\ UNCHANGED <<convs, confirmedBy, txn, now, sessions>>

CreateRide(u) == CreateRideWith(u, DefaultDestination, DefaultDeparture)

InitiateWithin(u, target, maxConvs) ==
    /\ Quiescent
    /\ LET res == initiateConversation(rides, users, convs, u, target,
                                       convIdOf(users[u].currentRideRequest, target)) IN
       /\ res.code = 201
       /\ Cardinality(DOMAIN convs) < maxConvs
       /\ rides' = res.rides
       /\ convs' = res.convs
       /\ lastOp' = Response("initiate", u, target, res.code, "none", TRUE)
    /\ race' = NoRace
    /\ UNCHANGED <<users, created, confirmedBy, txn, now, sessions>>

Initiate(u, target) == InitiateWithin(u, target, MaxConvs)

Confirm(u, cid) ==
    /\ Quiescent
    /\ LET res == confirmRide(rides, convs, u, cid) IN
       /\ res.code = 200
       /\ rides' = res.rides
       /\ lastOp' = Response("confirm", u, cid, res.code, res.msg, res.rides # rides)
       /\ confirmedBy' = [confirmedBy EXCEPT ![cid] = @ \cup {u}]
    /\ race' = NoRace
    /\ UNCHANGED <<users, convs, created, txn, now, sessions>>

Decline(u, cid) ==
    /\ Quiescent
    /\ LET res == declineConversation(rides, convs, u, cid) IN
       /\ res.code = 200
       /\ rides' = res.rides
       /\ lastOp' = Response("decline", u, cid, res.code, res.msg, res.rides # rides)
    /\ race' = NoRace
    /\ UNCHANGED <<users, convs, created, confirmedBy, txn, now, sessions>>

\* The whole handler: the transaction, then the removal of the document.
DeleteRide(u) ==
    /\ Quiescent
    /\ LET res == deleteRideTransaction(rides, users, u) IN
       /\ res.code = 200
       /\ rides' = findByIdAndDelete(res.rides, res.rideRequestIdToDelete)
       /\ users' = res.users
       /\ lastOp' = [Response("deleteRide", u, users[u].currentRideRequest, res.code,
                               "none", TRUE)
                        EXCEPT !.events = conversationUpdates(res.affected)]
       /\ sessions' = emitFrom(sessions, conversationUpdates(res.affected), 1)
    /\ race' = NoRace
    /\ UNCHANGED <<convs, created, confirmedBy, txn, now>>

Next ==
    \/ \E u \in SpecUsers : CreateRide(u)
    \/ \E u \in SpecUsers, target \in RideIds : Initiate(u, target)
    \/ \E u \in SpecUsers, cid \in ConvInputs : Confirm(u, cid)
    \/ \E u \in SpecUsers, cid \in ConvInputs : Decline(u, cid)
    \/ \E u \in SpecUsers : DeleteRide(u)

Spec == Init /\ [][Next]_vars

----------------------------------------------------------------------------
(* Four riders.  A cascade that leaves a third ride Pending needs a fourth *)
(* ride for the third one to be paired with.  To keep four riders within   *)
(* reach, nobody deletes a ride here and a rider initiates only towards    *)
(* the next ride, so the pairings form a chain R1 - R2 - R3 - R4; either   *)
(* owner of a pairing confirms or declines it.                             *)

\* Number of Conversation documents created in one behaviour of CascadeSpec.
MaxCascadeConvs == 3

CascadeInitiate(u, target) ==
    /\ target = users[u].currentRideRequest + 1
    /\ InitiateWithin(u, target, MaxCascadeConvs)

CascadeNext ==
    \/ \E u \in Users : CreateRide(u)
    \/ \E u \in Users, target \in RideIds : CascadeInitiate(u, target)
    \/ \E u \in Users, cid \in ConvInputs : Confirm(u, cid)
    \/ \E u \in Users, cid \in ConvInputs : Decline(u, cid)

CascadeSpec == Init /\ [][CascadeNext]_vars

----------------------------------------------------------------------------
(* Two calls on one conversation in flight at once.                        *)
(*                                                                         *)
(* confirmRide and declineConversation run their bodies inside             *)
(* session.withTransaction.  A transaction reads the snapshot of the       *)
(* store taken when it starts and the other sessions see its writes only   *)
(* when it commits; a write to a document that another transaction has     *)
(* written since the snapshot fails with a write conflict, the             *)
(* transaction aborts and withTransaction runs the callback again.  Reads  *)
(* take no lock.  A callback that throws aborts its transaction and the    *)
(* handler answers with the error.  Only RideRequest documents are         *)
(* written by the two handlers, so the snapshot kept is the one of         *)
(* `rides`.                                                                *)

\* Number of Conversation documents created in one behaviour of RaceSpec.
MaxRaceConvs == 2

\* The body of the callback of the call txn[u], run on the collection R.
txnBody(t, R, u) ==
    IF t.op = "confirm" THEN confirmRide(R, convs, u, t.cid)
    ELSE declineConversation(R, convs, u, t.cid)

\* The documents the callback run on snap has saved with a change.
written(snap, res) == {id \in DOMAIN snap : res.rides[id] # snap[id]}

writeConflict_never(snap, ids) == FALSE

\* Some document the transaction writes has been written by a transaction
\* that committed after the snapshot was taken.
writeConflict(snap, ids) == \E id \in ids : rides[id] # snap[id]

\* The confirm of user u and the decline of user v on conversation cid
\* arrive together; u and v own the two rides of the conversation.
StartRace(u, v, cid) ==
    /\ Quiescent
    /\ race = NoRace
    /\ cid \in DOMAIN convs
    /\ u # v
    /\ LET a == convs[cid].rideRequestA
           b == convs[cid].rideRequestB
       IN  /\ a \in DOMAIN rides /\ b \in DOMAIN rides
           /\ {rides[a].userId, rides[b].userId} = {u, v}
    /\ txn' = [txn EXCEPT ![u] = [op |-> "confirm", cid |-> cid, phase |-> "ready"],
                          ![v] = [op |-> "decline", cid |-> cid, phase |-> "ready"]]
    /\ race' = [phase |-> "open", cid |-> cid, confirmer |-> u, decliner |-> v,
                rides0 |-> rides, codeC |-> 0, codeD |-> 0, retried |-> FALSE]
    /\ UNCHANGED <<rides, users, convs, created, lastOp, confirmedBy, now, sessions>>

\* withTransaction starts the transaction (again): the snapshot is taken.
BeginTxn(u) ==
    /\ txn[u] # NoTxn
    /\ txn[u].phase = "ready"
    /\ txn' = [txn EXCEPT ![u] = [op |-> @.op, cid |-> @.cid, phase |-> "active",
                                  snap |-> rides]]
    /\ UNCHANGED <<rides, users, convs, created, lastOp, confirmedBy, race, now, sessions>>

\* The response of the call of user u is recorded in the history.
answered(u, code) ==
    IF race.phase = "confirms" THEN [race EXCEPT !.codes[u] = code]
    ELSE IF txn[u].op = "confirm" THEN [race EXCEPT !.codeC = code]
    ELSE [race EXCEPT !.codeD = code]

\* The callback ran to its end without a write conflict: the transaction
\* commits what it saved and the handler answers 200.
CommitTxn(u) ==
    /\ txn[u] # NoTxn
    /\ txn[u].phase = "active"
    /\ LET snap == txn[u].snap
           res == txnBody(txn[u], snap, u)
           ids == written(snap, res)
       IN  /\ res.code = 200
           /\ ~writeConflict(snap, ids)
           /\ rides' = [id \in DOMAIN rides |->
                          IF id \in ids
                          THEN save(rides, id, snap[id], res.rides[id])[id]
                          ELSE rides[id]]
           /\ lastOp' = Response(txn[u].op, u, txn[u].cid, res.code, res.msg,
                                 rides' # rides)
           /\ confirmedBy' = IF txn[u].op = "confirm"
                             THEN [confirmedBy EXCEPT ![txn[u].cid] = @ \cup {u}]
                             ELSE confirmedBy
           /\ race' = answered(u, res.code)
    /\ txn' = [txn EXCEPT ![u] = NoTxn]
    /\ UNCHANGED <<users, convs, created, now, sessions>>

\* A save of the callback met a write conflict: the transaction aborts
\* and withTransaction runs the callback again in a new transaction.
AbortTxn(u) ==
    /\ txn[u] # NoTxn
    /\ txn[u].phase = "active"
    /\ LET snap == txn[u].snap
           res == txnBody(txn[u], snap, u)
       IN  /\ res.code = 200
           /\ writeConflict(snap, written(snap, res))
    /\ txn' = [txn EXCEPT ![u] = [op |-> @.op, cid |-> @.cid, phase |-> "ready"]]
    /\ race' = [race EXCEPT !.retried = TRUE]
    /\ UNCHANGED <<rides, users, convs, created, lastOp, confirmedBy, now, sessions>>

\* The callback threw: the transaction aborts, nothing is written and the
\* handler answers with the status of the error.
ThrowTxn(u) ==
    /\ txn[u] # NoTxn
    /\ txn[u].phase = "active"
    /\ LET res == txnBody(txn[u], txn[u].snap, u) IN
       /\ res.code # 200
       /\ race' = answered(u, res.code)
    /\ txn' = [txn EXCEPT ![u] = NoTxn]
    /\ UNCHANGED <<rides, users, convs, created, lastOp, confirmedBy, now, sessions>>

RaceInitiate(u, target) == InitiateWithin(u, target, MaxRaceConvs)

RaceNext ==
    \/ \E u \in SpecUsers : CreateRide(u)
    \/ \E u \in SpecUsers, target \in RideIds : RaceInitiate(u, target)
    \/ \E u \in SpecUsers, cid \in ConvInputs : Confirm(u, cid)
    \/ \E u \in SpecUsers, cid \in ConvInputs : Decline(u, cid)
    \/ \E u \in SpecUsers : DeleteRide(u)
    \/ \E u \in SpecUsers, v \in SpecUsers, cid \in ConvInputs : StartRace(u, v, cid)
    \/ \E u \in SpecUsers : BeginTxn(u)
    \/ \E u \in SpecUsers : CommitTxn(u)
    \/ \E u \in SpecUsers : AbortTxn(u)
    \/ \E u \in SpecUsers : ThrowTxn(u)

RaceSpec == Init /\ [][RaceNext]_vars

----------------------------------------------------------------------------
(* Messages.  One conversation, a few messages: the riders create and      *)
(* delete rides, pair up, confirm and decline as before, and the           *)
(* participants of the conversation write to each other.                   *)

\* Number of Conversation documents created in one behaviour of ChatSpec.
MaxChatConvs == 1

\* Number of messages sent to one conversation in one behaviour of ChatSpec.
MaxMessages == 2

\* The whole handler: the conversation is read, checked, extended and saved.
SendMessage(u, cid, length, expired) ==
    /\ Quiescent
    /\ cid \in DOMAIN convs
    /\ Len(convs[cid].messages) < MaxMessages
    /\ LET res == sendMessage(convs, rides, u, cid, length, expired) IN
       /\ res.code = 201
       /\ convs' = res.convs
       /\ lastOp' = Response("sendMessage", u, cid, res.code, "none", TRUE)
    /\ race' = NoRace
    /\ UNCHANGED <<rides, users, created, confirmedBy, txn, now, sessions>>

ChatInitiate(u, target) == InitiateWithin(u, target, MaxChatConvs)

ChatNext ==
    \/ \E u \in SpecUsers : CreateRide(u)
    \/ \E u \in SpecUsers, target \in RideIds : ChatInitiate(u, target)
    \/ \E u \in SpecUsers, cid \in ConvInputs : Confirm(u, cid)
    \/ \E u \in SpecUsers, cid \in ConvInputs : Decline(u, cid)
    \/ \E u \in SpecUsers : DeleteRide(u)
    \/ \E u \in SpecUsers, cid \in ConvInputs, length \in ContentLengths, expired \in BOOLEAN :
          SendMessage(u, cid, length, expired)

ChatSpec == Init /\ [][ChatNext]_vars

----------------------------------------------------------------------------
(* Two initiates in flight at once: two riders ask for each other's ride   *)
(* at the same moment.  initiateConversation's transaction reads the       *)
(* user, both rides and the conversations between them from its snapshot,  *)
(* inserts the Conversation document and saves both rides.  An insert      *)
(* conflicts with nothing; the saves of the rides meet the write conflict  *)
(* as above.                                                               *)

\* Number of Conversation documents created by the calls made one at a
\* time in one behaviour of InitiateRaceSpec.
MaxInitiateRaceConvs == 2

\* The initiates of users u and v, each towards the other's current ride,
\* arrive together.
StartInitiateRace(u, v) ==
    /\ Quiescent
    /\ race = NoRace
    /\ u # v
    /\ users[u].currentRideRequest \in DOMAIN rides
    /\ users[v].currentRideRequest \in DOMAIN rides
    /\ Cardinality(DOMAIN convs) < MaxInitiateRaceConvs
    /\ txn' = [txn EXCEPT
                 ![u] = [op |-> "initiate", target |-> users[v].currentRideRequest,
                         phase |-> "ready"],
                 ![v] = [op |-> "initiate", target |-> users[u].currentRideRequest,
                         phase |-> "ready"]]
    /\ race' = [phase |-> "initiate", callers |-> {u, v}, rides0 |-> rides,
                convs0 |-> convs, codes |-> [w \in {u, v} |-> 0], retried |-> FALSE]
    /\ UNCHANGED <<rides, users, convs, created, lastOp, confirmedBy, now, sessions>>

\* withTransaction starts the transaction (again): the snapshot is taken.
BeginInitiate(u) ==
    /\ txn[u].op = "initiate"
    /\ txn[u].phase = "ready"
    /\ txn' = [txn EXCEPT ![u] = [op |-> @.op, target |-> @.target, phase |-> "active",
                                  snap |-> rides, snapConvs |-> convs]]
    /\ UNCHANGED <<rides, users, convs, created, lastOp, confirmedBy, race, now, sessions>>

\* The callback of the initiate of user u, run on its snapshot.
initiateBody(u) ==
    initiateConversation(txn[u].snap, users, txn[u].snapConvs, u, txn[u].target,
                         convIdOf(users[u].currentRideRequest, txn[u].target))

\* The callback ran to its end without a write conflict: the transaction
\* commits the new Conversation and the two rides and the handler answers
\* 201.
CommitInitiate(u) ==
    /\ txn[u].op = "initiate"
    /\ txn[u].phase = "active"
    /\ LET snap == txn[u].snap
           res == initiateBody(u)
           ids == written(snap, res)
           cid == convIdOf(users[u].currentRideRequest, txn[u].target)
       IN  /\ res.code = 201
           /\ ~writeConflict(snap, ids)
           /\ rides' = [id \in DOMAIN rides |->
                          IF id \in ids
                          THEN save(rides, id, snap[id], res.rides[id])[id]
                          ELSE rides[id]]
           /\ convs' = [c \in DOMAIN convs \cup {cid} |->
                          IF c = cid THEN res.convs[cid] ELSE convs[c]]
           /\ lastOp' = Response("initiate", u, txn[u].target, res.code, "none", TRUE)
           /\ race' = [race EXCEPT !.codes[u] = res.code]
    /\ txn' = [txn EXCEPT ![u] = NoTxn]
    /\ UNCHANGED <<users, created, confirmedBy, now, sessions>>

\* A save of the callback met a write conflict: the transaction aborts,
\* the inserted Conversation with it, and withTransaction runs the
\* callback again in a new transaction.
AbortInitiate(u) ==
    /\ txn[u].op = "initiate"
    /\ txn[u].phase = "active"
    /\ LET res == initiateBody(u) IN
       /\ res.code = 201
       /\ writeConflict(txn[u].snap, written(txn[u].snap, res))
    /\ txn' = [txn EXCEPT ![u] = [op |-> @.op, target |-> @.target, phase |-> "ready"]]
    /\ race' = [race EXCEPT !.retried = TRUE]
    /\ UNCHANGED <<rides, users, convs, created, lastOp, confirmedBy, now, sessions>>

\* The callback threw: nothing is written and the handler answers with the
\* status of the error.
ThrowInitiate(u) ==
    /\ txn[u].op = "initiate"
    /\ txn[u].phase = "active"
    /\ LET res == initiateBody(u) IN
       /\ res.code # 201
       /\ race' = [race EXCEPT !.codes[u] = res.code]
    /\ txn' = [txn EXCEPT ![u] = NoTxn]
    /\ UNCHANGED <<rides, users, convs, created, lastOp, confirmedBy, now, sessions>>

InitiateRaceInitiate(u, target) == InitiateWithin(u, target, MaxInitiateRaceConvs)

InitiateRaceNext ==
    \/ \E u \in SpecUsers : CreateRide(u)
    \/ \E u \in SpecUsers, target \in RideIds : InitiateRaceInitiate(u, target)
    \/ \E u \in SpecUsers, cid \in ConvInputs : Confirm(u, cid)
    \/ \E u \in SpecUsers, cid \in ConvInputs : Decline(u, cid)
    \/ \E u \in SpecUsers : DeleteRide(u)
    \/ \E u \in SpecUsers, v \in SpecUsers : StartInitiateRace(u, v)
    \/ \E u \in SpecUsers : BeginInitiate(u)
    \/ \E u \in SpecUsers : CommitInitiate(u)
    \/ \E u \in SpecUsers : AbortInitiate(u)
    \/ \E u \in SpecUsers : ThrowInitiate(u)

InitiateRaceSpec == Init /\ [][InitiateRaceNext]_vars

----------------------------------------------------------------------------
(* deleteRideRequest in two steps.  The handler commits its transaction    *)
(* (the counterparts are updated, the owner is unlinked) and only then     *)
(* removes the RideRequest document, outside the transaction: between the  *)
(* two the store is visible with the ride still in it.                     *)

\* Number of Conversation documents created in one behaviour of WindowSpec.
MaxWindowConvs == 2

\* deleteRideRequest's transaction commits.
DeleteCommit(u) ==
    /\ Quiescent
    /\ LET res == deleteRideTransaction(rides, users, u) IN
       /\ res.code = 200
       /\ rides' = res.rides
       /\ users' = res.users
       /\ txn' = [txn EXCEPT ![u] = [op |-> "deleteRide", phase |-> "committed",
                                     rideId |-> res.rideRequestIdToDelete,
                                     affected |-> res.affected]]
    /\ race' = NoRace
    /\ UNCHANGED <<convs, created, lastOp, confirmedBy, now, sessions>>

\* The document is removed, the events are emitted and the handler
\* answers.
DeleteRemove(u) ==
    /\ txn[u].op = "deleteRide"
    /\ txn[u].phase = "committed"
    /\ rides' = findByIdAndDelete(rides, txn[u].rideId)
    /\ lastOp' = [Response("deleteRide", u, txn[u].rideId, 200, "none", TRUE)
                     EXCEPT !.events = conversationUpdates(txn[u].affected)]
    /\ sessions' = emitFrom(sessions, conversationUpdates(txn[u].affected), 1)
    /\ txn' = [txn EXCEPT ![u] = NoTxn]
    /\ UNCHANGED <<users, convs, created, confirmedBy, race, now>>

WindowInitiate(u, target) == InitiateWithin(u, target, MaxWindowConvs)

WindowNext ==
    \/ \E u \in SpecUsers : CreateRide(u)
    \/ \E u \in SpecUsers, target \in RideIds : WindowInitiate(u, target)
    \/ \E u \in SpecUsers, cid \in ConvInputs : Confirm(u, cid)
    \/ \E u \in SpecUsers, cid \in ConvInputs : Decline(u, cid)
    \/ \E u \in SpecUsers : DeleteCommit(u)
    \/ \E u \in SpecUsers : DeleteRemove(u)

WindowSpec == Init /\ [][WindowNext]_vars

----------------------------------------------------------------------------
(* Reading the store                                                       *)

\* The status of ride r's ref for conversation c in the collection R
\* ("none": r holds no such ref).
refStatusIn(R, r, c) ==
    LET i == findConvRef(R[r], c) IN
    IF i = 0 THEN "none" ELSE R[r].conversations[i].status

refStatus(r, c) == refStatusIn(rides, r, c)

\* The indexes of ride's refs whose status is in S.
refsWith(ride, S) ==
    {i \in 1..Len(ride.conversations) : ride.conversations[i].status \in S}

\* The indexes of ride's refs for conversation c.
refsFor(ride, c) ==
    {i \in 1..Len(ride.conversations) : ride.conversations[i].conversationId = c}

\* The conversations both of whose rides exist.
LiveConvs ==
    {c \in DOMAIN convs :
        convs[c].rideRequestA \in DOMAIN rides /\ convs[c].rideRequestB \in DOMAIN rides}

\* The ride of conversation c that is not r.
otherRide(c, r) ==
    IF convs[c].rideRequestA = r THEN convs[c].rideRequestB ELSE convs[c].rideRequestA

----------------------------------------------------------------------------
(* C1 *)

\* C1: after any sequence of completed createRide, initiate, confirm,
\* decline and deleteRide calls, every existing ride is Confirmed iff
\* exactly one of its refs is confirmed, Pending iff none is confirmed and
\* at least one is pending or awaiting_confirmation, Available otherwise.
C1_StatusMatchesRefs ==
    \A r \in DOMAIN rides :
        LET nConfirmed == Cardinality(refsWith(rides[r], {"confirmed"}))
            nActive    == Cardinality(refsWith(rides[r], ActiveStatuses))
            isConfirmed == nConfirmed = 1
            isPending   == nConfirmed = 0 /\ nActive >= 1
        IN  /\ rides[r].status = "Confirmed" <=> isConfirmed
            /\ rides[r].status = "Pending" <=> isPending
            /\ rides[r].status = "Available" <=> (~isConfirmed /\ ~isPending)

\* A mutual confirmation has just cascaded: a Confirmed ride, a Pending
\* ride turned Available that keeps only declined refs.
C1_Witness ==
    /\ lastOp.op = "confirm" /\ lastOp.msg = "mutual"
    /\ \E r \in DOMAIN rides : rides[r].status = "Confirmed"
    /\ \E r \in DOMAIN rides :
          /\ rides[r].status = "Available"
          /\ refsWith(rides[r], {"declined"}) # {}

----------------------------------------------------------------------------
(* C2 *)

MirrorPairs ==
    { <<"pending", "pending">>,
      <<"awaiting_confirmation", "pending">>,
      <<"pending", "awaiting_confirmation">>,
      <<"confirmed", "confirmed">>,
      <<"declined", "declined">> }

\* C2: after any sequence of initiate, confirm and decline calls (and of
\* createRide and deleteRide), for every conversation between two existing
\* rides each ride holds exactly one ref for it, pointing at the other
\* ride, and the two statuses are (pending, pending), one
\* awaiting_confirmation with the other pending, (confirmed, confirmed) or
\* (declined, declined).
C2_MirrorSymmetry ==
    \A c \in LiveConvs :
        LET a == convs[c].rideRequestA
            b == convs[c].rideRequestB
        IN  /\ Cardinality(refsFor(rides[a], c)) = 1
            /\ Cardinality(refsFor(rides[b], c)) = 1
            /\ \A i \in refsFor(rides[a], c) : rides[a].conversations[i].rideId = b
            /\ \A i \in refsFor(rides[b], c) : rides[b].conversations[i].rideId = a
            /\ <<refStatus(a, c), refStatus(b, c)>> \in MirrorPairs

\* A cascade has declined a pairing one of whose refs was
\* awaiting_confirmation: a conversation on which somebody confirmed, now
\* declined on both sides, next to a mutually confirmed one.
C2_Witness ==
    /\ lastOp.op = "confirm" /\ lastOp.msg = "mutual"
    /\ \E c \in LiveConvs :
          /\ c # lastOp.arg
          /\ confirmedBy[c] # {}
          /\ refStatus(convs[c].rideRequestA, c) = "declined"
          /\ refStatus(convs[c].rideRequestB, c) = "declined"

----------------------------------------------------------------------------
(* C3 *)

\* C3: a ref of a conversation between two existing rides is confirmed
\* only if each of the two ride owners has made a successful confirm call
\* on that conversation before.
C3_MutualNeedsBoth ==
    \A c \in LiveConvs :
        LET a == convs[c].rideRequestA
            b == convs[c].rideRequestB
        IN  (refStatus(a, c) = "confirmed" \/ refStatus(b, c) = "confirmed")
            => {rides[a].userId, rides[b].userId} \subseteq confirmedBy[c]

\* A pairing is locked, both owners having confirmed.
C3_Witness ==
    \E c \in LiveConvs :
        /\ refStatus(convs[c].rideRequestA, c) = "confirmed"
        /\ refStatus(convs[c].rideRequestB, c) = "confirmed"
        /\ rides[convs[c].rideRequestA].status = "Confirmed"
        /\ rides[convs[c].rideRequestB].status = "Confirmed"
        /\ Cardinality(confirmedBy[c]) = 2

----------------------------------------------------------------------------
(* C4 *)

\* The ride of conversation c that user u owns (rideRequestA first, as
\* confirmRide looks it up).
rideOf(u, c) ==
    IF rides[convs[c].rideRequestA].userId = u
    THEN convs[c].rideRequestA ELSE convs[c].rideRequestB

\* C4, as the code has it: when an actor confirms a fresh conversation
\* (both refs pending), the call moves the actor's ref to
\* awaiting_confirmation and leaves the counterpart's pending; the same
\* actor's next confirm call, the counterpart not having confirmed, is
\* answered 200 "confirmation recorded" once more and changes nothing, so
\* neither ref becomes confirmed.
C4_RepeatedConfirmIsNoOp ==
    [][ \A u \in Users, c \in DOMAIN convs :
          ( /\ Confirm(u, c)
            /\ refStatus(convs[c].rideRequestA, c) = "pending"
            /\ refStatus(convs[c].rideRequestB, c) = "pending" )
          => LET me == rideOf(u, c)
                 ot == otherRide(c, me)
                 again == confirmRide(rides', convs', u, c)
             IN  /\ refStatusIn(rides', me, c) = "awaiting_confirmation"
                 /\ refStatusIn(rides', ot, c) = "pending"
                 /\ again.code = 200
                 /\ again.msg = "recorded"
                 /\ again.rides = rides'
      ]_vars

\* C4 as claimed: the second call is rejected with conflict (409).
C4_SecondConfirmIsConflict ==
    [][ \A u \in Users, c \in DOMAIN convs :
          ( /\ Confirm(u, c)
            /\ refStatus(convs[c].rideRequestA, c) = "pending"
            /\ refStatus(convs[c].rideRequestB, c) = "pending" )
          => LET me == rideOf(u, c)
                 ot == otherRide(c, me)
                 again == confirmRide(rides', convs', u, c)
             IN  /\ refStatusIn(rides', me, c) = "awaiting_confirmation"
                 /\ refStatusIn(rides', ot, c) = "pending"
                 /\ again.code = 409
                 /\ again.rides = rides'
      ]_vars

\* The same actor's second confirm has been answered: a successful confirm
\* that changed nothing, the actor the only one to have confirmed, its ref
\* awaiting_confirmation and the counterpart's pending.
C4_Witness ==
    /\ lastOp.op = "confirm" /\ lastOp.code = 200 /\ lastOp.msg = "recorded"
    /\ ~lastOp.changed
    /\ lastOp.arg \in LiveConvs
    /\ confirmedBy[lastOp.arg] = {lastOp.user}
    /\ refStatus(rideOf(lastOp.user, lastOp.arg), lastOp.arg) = "awaiting_confirmation"
    /\ refStatus(otherRide(lastOp.arg, rideOf(lastOp.user, lastOp.arg)), lastOp.arg)
          = "pending"

----------------------------------------------------------------------------
(* C5 *)

\* C5, as the code has it: a declined ref stays declined under every call,
\* and a confirmed ref stays confirmed under every call but one: the
\* deleteRide of the counterpart ride it points at, which declines it.
C5_Absorption ==
    [][ \A r \in DOMAIN rides \cap DOMAIN rides' :
          \A i \in 1..Len(rides[r].conversations) :
             LET s == rides[r].conversations[i].status
                 t == rides'[r].conversations[i].status
             IN  /\ s = "declined" => t = "declined"
                 /\ s = "confirmed" =>
                       \/ t = "confirmed"
                       \/ /\ t = "declined"
                          /\ lastOp'.op = "deleteRide"
                          /\ lastOp'.arg = rides[r].conversations[i].rideId
      ]_vars

\* C5 as claimed: neither a confirmed nor a declined ref ever changes.
C5_TerminalStatuses ==
    [][ \A r \in DOMAIN rides \cap DOMAIN rides' :
          \A i \in 1..Len(rides[r].conversations) :
             rides[r].conversations[i].status \in {"confirmed", "declined"}
             => rides'[r].conversations[i].status = rides[r].conversations[i].status
      ]_vars

\* deleteRide has just declined the ref of the ride its ride was mutually
\* confirmed with.
C5_Witness ==
    /\ lastOp.op = "deleteRide"
    /\ \E c \in DOMAIN convs :
          /\ Cardinality(confirmedBy[c]) = 2
          /\ lastOp.arg \in {convs[c].rideRequestA, convs[c].rideRequestB}
          /\ otherRide(c, lastOp.arg) \in DOMAIN rides
          /\ refStatus(otherRide(c, lastOp.arg), c) = "declined"

----------------------------------------------------------------------------
(* C7 *)

\* C7, as the code has it: an initiate in which the requester's ride or
\* the target ride is Confirmed is always rejected and creates no
\* Conversation and no ref; the rejection is the conflict (409) whenever
\* the requester's ride and the target both exist and differ, and the
\* earlier not-found (404) or bad-request (400) otherwise.
C7_ConfirmedRideBlocksInitiate ==
    \A u \in Users, target \in RideIds :
        LET me  == users[u].currentRideRequest
            res == initiateConversation(rides, users, convs, u, target,
                                        convIdOf(me, target))
            meConfirmed == me \in DOMAIN rides /\ rides[me].status = "Confirmed"
            targetConfirmed ==
                target \in DOMAIN rides /\ rides[target].status = "Confirmed"
        IN  (meConfirmed \/ targetConfirmed) =>
               /\ res.code \in {400, 404, 409}
               /\ res.rides = rides
               /\ res.convs = convs
               /\ (me \in DOMAIN rides /\ target \in DOMAIN rides /\ me # target)
                     => res.code = 409

\* C7 as claimed: every such initiate is rejected with conflict (409).
C7_AlwaysConflict ==
    \A u \in Users, target \in RideIds :
        LET me  == users[u].currentRideRequest
            res == initiateConversation(rides, users, convs, u, target,
                                        convIdOf(me, target))
            meConfirmed == me \in DOMAIN rides /\ rides[me].status = "Confirmed"
            targetConfirmed ==
                target \in DOMAIN rides /\ rides[target].status = "Confirmed"
        IN  (meConfirmed \/ targetConfirmed) =>
               /\ res.code = 409
               /\ res.rides = rides
               /\ res.convs = convs

\* A rider whose ride is not Confirmed and has no conversation with a
\* Confirmed ride asks for one and gets the conflict.
C7_Witness ==
    \E u \in Users, target \in DOMAIN rides :
        LET me == users[u].currentRideRequest IN
        /\ me \in DOMAIN rides
        /\ me # target
        /\ rides[me].status # "Confirmed"
        /\ rides[target].status = "Confirmed"
        /\ ~\E c \in DOMAIN convs :
               {convs[c].rideRequestA, convs[c].rideRequestB} = {me, target}
        /\ initiateConversation(rides, users, convs, u, target,
                                convIdOf(me, target)).code = 409

----------------------------------------------------------------------------
(* C9 *)

\* C9: a confirm on a conversation whose two refs are pending leaves the
\* confirmer's ref awaiting_confirmation, the counterpart's pending and
\* both rides Pending; a confirm by the owner whose ref is pending while
\* the counterpart's is awaiting_confirmation leaves both refs confirmed
\* and both rides Confirmed.
C9_TwoPhaseHandshake ==
    [][ \A u \in Users, c \in DOMAIN convs :
          Confirm(u, c) =>
             LET me == rideOf(u, c)
                 ot == otherRide(c, me)
             IN  /\ (refStatus(me, c) = "pending" /\ refStatus(ot, c) = "pending")
                    => /\ refStatusIn(rides', me, c) = "awaiting_confirmation"
                       /\ refStatusIn(rides', ot, c) = "pending"
                       /\ rides'[me].status = "Pending"
                       /\ rides'[ot].status = "Pending"
                 /\ (refStatus(me, c) = "pending"
                        /\ refStatus(ot, c) = "awaiting_confirmation")
                    => /\ refStatusIn(rides', me, c) = "confirmed"
                       /\ refStatusIn(rides', ot, c) = "confirmed"
                       /\ rides'[me].status = "Confirmed"
                       /\ rides'[ot].status = "Confirmed"
      ]_vars

\* The second owner's confirm has just locked the pairing.
C9_Witness ==
    /\ lastOp.op = "confirm" /\ lastOp.msg = "mutual" /\ lastOp.changed
    /\ lastOp.arg \in LiveConvs
    /\ Cardinality(confirmedBy[lastOp.arg]) = 2
    /\ \A r \in {convs[lastOp.arg].rideRequestA, convs[lastOp.arg].rideRequestB} :
          refStatus(r, lastOp.arg) = "confirmed" /\ rides[r].status = "Confirmed"

----------------------------------------------------------------------------
(* C10 *)

NonDeclined == {"pending", "awaiting_confirmation", "confirmed"}

\* C10: a successful deleteRide removes the owner's ride R and clears the
\* owner's currentRideRequest; for each ref of R that is pending,
\* awaiting_confirmation or confirmed, the mirrored ref on the counterpart
\* is declined afterwards, the counterpart is Available when it is left
\* with no non-declined ref, and a counterpart that was Confirmed with R
\* is Available.
C10_DeleteCascades ==
    [][ \A u \in Users :
          DeleteRide(u) =>
             LET R == users[u].currentRideRequest IN
             /\ R \notin DOMAIN rides'
             /\ users'[u].currentRideRequest = 0
             /\ \A i \in refsWith(rides[R], NonDeclined) :
                   LET x == rides[R].conversations[i].rideId
                       c == rides[R].conversations[i].conversationId
                   IN  x \in DOMAIN rides =>
                          /\ x \in DOMAIN rides'
                          /\ refStatusIn(rides', x, c) = "declined"
                          /\ refsWith(rides'[x], NonDeclined) = {}
                                => rides'[x].status = "Available"
                          /\ rides[x].status = "Confirmed"
                                => rides'[x].status = "Available"
      ]_vars

\* A ride that was mutually confirmed has been deleted: its counterpart is
\* still there, Available, its ref declined.
C10_Witness ==
    /\ lastOp.op = "deleteRide"
    /\ lastOp.arg \notin DOMAIN rides
    /\ users[lastOp.user].currentRideRequest = 0
    /\ \E c \in DOMAIN convs :
          /\ Cardinality(confirmedBy[c]) = 2
          /\ lastOp.arg \in {convs[c].rideRequestA, convs[c].rideRequestB}
          /\ otherRide(c, lastOp.arg) \in DOMAIN rides
          /\ refStatus(otherRide(c, lastOp.arg), c) = "declined"
          /\ rides[otherRide(c, lastOp.arg)].status = "Available"

----------------------------------------------------------------------------
(* C6 *)

\* The pairings a mutual confirmation of conversation c cascades over: the
\* refs <<r1, i>> of either ride of c, for another conversation, that are
\* pending or awaiting_confirmation and whose counterpart ride exists and
\* holds a pending or awaiting_confirmation mirror.
CompetingRefs(c) ==
    {p \in {convs[c].rideRequestA, convs[c].rideRequestB} \X (1..(2 * MaxCascadeConvs)) :
        /\ p[2] <= Len(rides[p[1]].conversations)
        /\ LET ref == rides[p[1]].conversations[p[2]] IN
           /\ ref.conversationId # c
           /\ ref.status \in ActiveStatuses
           /\ ref.rideId \in DOMAIN rides
           /\ refStatus(ref.rideId, ref.conversationId) \in ActiveStatuses}

\* C6: when a confirm locks R1 with R2 while R1 or R2 holds another
\* pairing with a ride R3 whose refs are pending or awaiting_confirmation,
\* the state the confirm commits has both refs of that pairing declined,
\* and R3 Available if it is left with no pending or awaiting_confirmation
\* ref, its status unchanged otherwise.
C6_CascadeDeclines ==
    [][ \A u \in Users, c \in DOMAIN convs :
          (Confirm(u, c) /\ lastOp'.msg = "mutual") =>
             \A p \in CompetingRefs(c) :
                LET ref == rides[p[1]].conversations[p[2]]
                    r3  == ref.rideId
                IN  /\ rides'[p[1]].conversations[p[2]].status = "declined"
                    /\ refStatusIn(rides', r3, ref.conversationId) = "declined"
                    /\ rides'[r3].status =
                          IF hasActive(rides'[r3]) THEN rides[r3].status
                          ELSE "Available"
      ]_vars

\* A mutual confirmation has just declined the pairing of a third ride
\* that stays Pending: it holds a declined ref towards one of the two
\* Confirmed rides, on which it or its counterpart had confirmed, and a
\* pending or awaiting_confirmation ref towards a fourth ride.
C6_Witness ==
    /\ lastOp.op = "confirm" /\ lastOp.msg = "mutual"
    /\ lastOp.arg \in LiveConvs
    /\ \E r3 \in DOMAIN rides :
          /\ r3 \notin {convs[lastOp.arg].rideRequestA, convs[lastOp.arg].rideRequestB}
          /\ rides[r3].status = "Pending"
          /\ \E i \in refsWith(rides[r3], {"declined"}) :
                /\ rides[r3].conversations[i].rideId
                      \in {convs[lastOp.arg].rideRequestA, convs[lastOp.arg].rideRequestB}
                /\ refStatus(rides[r3].conversations[i].rideId,
                             rides[r3].conversations[i].conversationId) = "declined"

----------------------------------------------------------------------------
(* C8 *)

\* The outcome of the two calls of the race run one after the other on the
\* store the race started from, the confirm first.
serialConfirmDecline ==
    LET c == confirmRide(race.rides0, convs, race.confirmer, race.cid)
        d == declineConversation(c.rides, convs, race.decliner, race.cid)
    IN  [rides |-> d.rides, codeC |-> c.code, codeD |-> d.code, first |-> c.rides]

\* The same, the decline first.
serialDeclineConfirm ==
    LET d == declineConversation(race.rides0, convs, race.decliner, race.cid)
        c == confirmRide(d.rides, convs, race.confirmer, race.cid)
    IN  [rides |-> c.rides, codeC |-> c.code, codeD |-> d.code, first |-> d.rides]

\* Both calls of the race have been answered.
RaceDone == race.phase = "open" /\ Quiescent

\* Under every interleaving the committed store and the two responses are
\* those of one of the two serial orders, and what is committed on the way
\* is the store of a prefix of a serial order.
RaceIsSerial ==
    LET cd == serialConfirmDecline
        dc == serialDeclineConfirm
    IN  /\ rides \in {race.rides0, cd.first, dc.first, cd.rides, dc.rides}
        /\ RaceDone =>
              \E s \in {cd, dc} :
                  /\ rides = s.rides
                  /\ race.codeC = s.codeC
                  /\ race.codeD = s.codeD

\* No ref of the raced conversation is confirmed while its mirror is declined.
NoConfirmedAgainstDeclined ==
    LET a == convs[race.cid].rideRequestA
        b == convs[race.cid].rideRequestB
    IN  /\ ~(refStatus(a, race.cid) = "confirmed" /\ refStatus(b, race.cid) = "declined")
        /\ ~(refStatus(b, race.cid) = "confirmed" /\ refStatus(a, race.cid) = "declined")

\* C8: a confirm of one participant and a decline of the other on the same
\* conversation run concurrently.  Under every interleaving the committed
\* result is the one of a serial order of the two calls; no committed state
\* has a ref of the conversation confirmed while the mirrored ref is
\* declined; no committed state has a ride Confirmed through the
\* conversation while the other ride is not Confirmed; and the two rides
\* differ in being Confirmed only when one of them was Confirmed through
\* another pairing before the race, the conversation being declined on both
\* sides, and then neither call changes anything.
C8_RaceIsSerializable ==
    race.phase = "open" =>
        LET a == convs[race.cid].rideRequestA
            b == convs[race.cid].rideRequestB
        IN  /\ RaceIsSerial
            /\ NoConfirmedAgainstDeclined
            /\ \A r \in {a, b} :
                  refStatus(r, race.cid) = "confirmed" =>
                      rides[a].status = "Confirmed" /\ rides[b].status = "Confirmed"
            /\ (rides[a].status = "Confirmed") # (rides[b].status = "Confirmed") =>
                  /\ rides = race.rides0
                  /\ refStatusIn(race.rides0, a, race.cid) = "declined"
                  /\ refStatusIn(race.rides0, b, race.cid) = "declined"

\* C8 as stated: during the race no committed state has one ride of the
\* conversation Confirmed while the other ride is not Confirmed.
C8_NoLoneConfirmedRide ==
    race.phase = "open" =>
        /\ RaceIsSerial
        /\ NoConfirmedAgainstDeclined
        /\ (rides[convs[race.cid].rideRequestA].status = "Confirmed")
              = (rides[convs[race.cid].rideRequestB].status = "Confirmed")

\* The counterpart had confirmed first; the confirm of the race committed
\* the mutual confirmation, the decline met the write conflict, ran again
\* and was rejected: both rides are Confirmed.
C8_Witness ==
    /\ RaceDone
    /\ race.retried
    /\ race.codeC = 200 /\ race.codeD = 409
    /\ refStatusIn(race.rides0, convs[race.cid].rideRequestA, race.cid) \in ActiveStatuses
    /\ rides[convs[race.cid].rideRequestA].status = "Confirmed"
    /\ rides[convs[race.cid].rideRequestB].status = "Confirmed"
    /\ refStatus(convs[race.cid].rideRequestA, race.cid) = "confirmed"
    /\ refStatus(convs[race.cid].rideRequestB, race.cid) = "confirmed"

----------------------------------------------------------------------------
(* C13 *)

\* The conversations that link rides r1 and r2, in either direction.
convsBetween(r1, r2) ==
    {c \in DOMAIN convs : {convs[c].rideRequestA, convs[c].rideRequestB} = {r1, r2}}

\* C13: when the requester has an active ride, the target is a different
\* existing ride, neither ride is Confirmed and every Conversation between
\* the two rides has both refs declined, initiate succeeds and creates a
\* new Conversation; it is rejected as a duplicate only while a
\* Conversation with a ref that is not declined links the two rides.
C13_ReinitiateAfterDecline ==
    \A u \in Users, target \in DOMAIN rides :
        LET me  == users[u].currentRideRequest
            cid == convIdOf(me, target)
            res == initiateConversation(rides, users, convs, u, target, cid)
        IN  (/\ me \in DOMAIN rides
             /\ me # target
             /\ rides[me].status # "Confirmed"
             /\ rides[target].status # "Confirmed"
             /\ \A c \in convsBetween(me, target) :
                   refStatus(me, c) = "declined" /\ refStatus(target, c) = "declined")
            => /\ res.code = 201
               /\ DOMAIN res.convs = DOMAIN convs \cup {cid}
               /\ cid \notin DOMAIN convs

----------------------------------------------------------------------------
(* C14 *)

\* C14: a successful initiate by the owner of R1 towards R2 creates exactly
\* one Conversation (linking R1 and R2), appends exactly one pending ref to
\* each of the two rides, pointing at the other ride with the new
\* conversation's id, turns an Available ride Pending and leaves a Pending
\* ride Pending, and leaves the earlier refs of both rides, every other
\* ride and every other Conversation unchanged.
C14_InitiateEffect ==
    [][ \A u \in Users, target \in RideIds :
          Initiate(u, target) =>
             LET me  == users[u].currentRideRequest
                 cid == convIdOf(me, target)
                 ref(rid) == [rideId |-> rid, status |-> "pending",
                              conversationId |-> cid]
             IN  /\ cid \notin DOMAIN convs
                 /\ DOMAIN convs' = DOMAIN convs \cup {cid}
                 /\ convs'[cid].rideRequestA = me /\ convs'[cid].rideRequestB = target
                 /\ \A c \in DOMAIN convs : convs'[c] = convs[c]
                 /\ DOMAIN rides' = DOMAIN rides
                 /\ rides'[me].conversations = Append(rides[me].conversations, ref(target))
                 /\ rides'[target].conversations = Append(rides[target].conversations, ref(me))
                 /\ \A r \in {me, target} :
                       /\ rides[r].status \in {"Available", "Pending"}
                       /\ rides'[r].status = "Pending"
                       /\ rides'[r].userId = rides[r].userId
                 /\ \A r \in DOMAIN rides \ {me, target} : rides'[r] = rides[r]
                 /\ users' = users
      ]_vars

\* An initiate has just paired an Available ride with a ride that was
\* Pending already through an earlier, still pending, conversation.
C14_Witness ==
    /\ lastOp.op = "initiate"
    /\ lastOp.code = 201
    /\ \E r \in DOMAIN rides :
          /\ Len(rides[r].conversations) = 2
          /\ rides[r].conversations[1].status = "pending"
          /\ rides[r].conversations[2].status = "pending"
          /\ rides[r].status = "Pending"
          /\ LET o == rides[r].conversations[2].rideId IN
             /\ o \in DOMAIN rides
             /\ Len(rides[o].conversations) = 1
             /\ rides[o].status = "Pending"

----------------------------------------------------------------------------
(* C15 *)

\* C15: every initiate, confirm or decline call that is answered with an
\* error (not found, bad request, conflict, not participant) leaves every
\* ride's status, every ref and every Conversation as they were.
C15_ErrorsChangeNothing ==
    /\ \A u \in Users, target \in RideIds :
          LET res == initiateConversation(rides, users, convs, u, target,
                        convIdOf(users[u].currentRideRequest, target))
          IN  res.code # 201 =>
                 /\ res.code \in {400, 404, 409}
                 /\ res.rides = rides
                 /\ res.convs = convs
    /\ \A u \in Users, cid \in ConvInputs :
          LET res == confirmRide(rides, convs, u, cid)
          IN  res.code # 200 =>
                 /\ res.code \in {403, 404, 409}
                 /\ res.rides = rides
    /\ \A u \in Users, cid \in ConvInputs :
          LET res == declineConversation(rides, convs, u, cid)
          IN  res.code # 200 =>
                 /\ res.code \in {403, 404, 409}
                 /\ res.rides = rides

\* A store with a Pending ride and a pairing under way in which each of
\* the three calls can be made so as to fail: an initiate that is a
\* duplicate, a confirm whose counterpart has declined, a decline by a
\* rider outside the conversation.
C15_Witness ==
    /\ \E r \in DOMAIN rides : rides[r].status = "Pending"
    /\ \E u \in Users, target \in DOMAIN rides :
          /\ users[u].currentRideRequest \in DOMAIN rides
          /\ initiateConversation(rides, users, convs, u, target,
                convIdOf(users[u].currentRideRequest, target)).code = 409
    /\ \E u \in Users, cid \in LiveConvs :
          /\ rides[rideOf(u, cid)].userId = u
          /\ rides[rideOf(u, cid)].status = "Pending"
          /\ confirmRide(rides, convs, u, cid).code = 409
    /\ \E u \in Users, cid \in DOMAIN convs :
          declineConversation(rides, convs, u, cid).code = 403

----------------------------------------------------------------------------
(* C16 *)

\* The two refs of conversation c, read from the documents in R.
refPair(R, c) ==
    <<{R[convs[c].rideRequestA].conversations[i].status :
          i \in {i \in 1..Len(R[convs[c].rideRequestA].conversations) :
                   R[convs[c].rideRequestA].conversations[i].conversationId = c}},
      {R[convs[c].rideRequestB].conversations[i].status :
          i \in {i \in 1..Len(R[convs[c].rideRequestB].conversations) :
                   R[convs[c].rideRequestB].conversations[i].conversationId = c}}>>

\* C16: a decline of a conversation whose two refs are declined already
\* changes nothing, and the rides and refs that a second decline leaves
\* are those the first decline left.
C16_DeclineIdempotent ==
    \A u \in Users, cid \in LiveConvs :
        LET d1 == declineConversation(rides, convs, u, cid) IN
        /\ refPair(rides, cid) = <<{"declined"}, {"declined"}>> => d1.rides = rides
        /\ d1.code = 200 =>
              /\ refPair(d1.rides, cid) = <<{"declined"}, {"declined"}>>
              /\ \A v \in Users :
                    declineConversation(d1.rides, convs, v, cid).rides = d1.rides

\* A participant has just declined, with success, a conversation that was
\* declined already, while one of its rides has another pairing under way.
C16_Witness ==
    /\ lastOp.op = "decline"
    /\ lastOp.code = 200
    /\ ~lastOp.changed
    /\ lastOp.arg \in LiveConvs
    /\ refPair(rides, lastOp.arg) = <<{"declined"}, {"declined"}>>
    /\ \E r \in {convs[lastOp.arg].rideRequestA, convs[lastOp.arg].rideRequestB} :
          rides[r].status = "Pending"

----------------------------------------------------------------------------
(* C17 *)

\* C17: while either ride of a conversation is Confirmed every decline of
\* it is rejected and changes nothing, with the conflict (409) when the
\* caller owns one of the two rides, so that decline never undoes a mutual
\* confirmation; a successful decline leaves both refs declined and each
\* of the two rides Available exactly when the ride is left with no
\* pending or awaiting_confirmation ref, its status unchanged otherwise.
C17_DeclineRespectsConfirmed ==
    /\ [](\A u \in Users, cid \in DOMAIN convs :
            LET a == convs[cid].rideRequestA
                b == convs[cid].rideRequestB
                res == declineConversation(rides, convs, u, cid)
            IN  (\E r \in {a, b} \cap DOMAIN rides : rides[r].status = "Confirmed") =>
                   /\ res.code # 200
                   /\ res.rides = rides
                   /\ (cid \in LiveConvs /\ u \in {rides[a].userId, rides[b].userId})
                         => res.code = 409)
    /\ [][ \A u \in Users, cid \in DOMAIN convs :
             Decline(u, cid) =>
                \A r \in {convs[cid].rideRequestA, convs[cid].rideRequestB} :
                   /\ rides[r].status # "Confirmed"
                   /\ refStatusIn(rides', r, cid) = "declined"
                   /\ IF refsWith(rides'[r], ActiveStatuses) = {}
                      THEN rides'[r].status = "Available"
                      ELSE rides'[r].status = rides[r].status
         ]_vars

\* A decline has just left one ride of the conversation Available and the
\* other, which keeps a pairing under way, Pending.
C17_Witness ==
    /\ lastOp.op = "decline"
    /\ lastOp.changed
    /\ lastOp.arg \in LiveConvs
    /\ LET a == convs[lastOp.arg].rideRequestA
           b == convs[lastOp.arg].rideRequestB
       IN  /\ {rides[a].status, rides[b].status} = {"Available", "Pending"}
           /\ refStatus(a, lastOp.arg) = "declined"
           /\ refStatus(b, lastOp.arg) = "declined"

----------------------------------------------------------------------------
(* C18 *)

\* C18: a confirm made while the counterpart's ref is pending changes only
\* the actor's ref, which is awaiting_confirmation afterwards: the
\* counterpart's ref, the statuses of both rides, the other refs of both
\* rides, every other ride and every Conversation are unchanged.
C18_FirstConfirmFrame ==
    [][ \A u \in Users, cid \in DOMAIN convs :
          (Confirm(u, cid) /\ refStatus(otherRide(cid, rideOf(u, cid)), cid) = "pending") =>
             LET me == rideOf(u, cid)
                 i  == CHOOSE k \in refsFor(rides[me], cid) : TRUE
             IN  /\ Cardinality(refsFor(rides[me], cid)) = 1
                 /\ rides' = [rides EXCEPT
                                 ![me].conversations[i].status = "awaiting_confirmation"]
                 /\ convs' = convs
                 /\ users' = users
      ]_vars

\* A first confirmation has just been recorded on one of the two pairings
\* of a ride; the other pairing and the two rides are as before.
C18_Witness ==
    /\ lastOp.op = "confirm"
    /\ lastOp.msg = "recorded"
    /\ lastOp.changed
    /\ lastOp.arg \in LiveConvs
    /\ LET me == rideOf(lastOp.user, lastOp.arg)
           ot == otherRide(lastOp.arg, me)
       IN  /\ refStatus(me, lastOp.arg) = "awaiting_confirmation"
           /\ refStatus(ot, lastOp.arg) = "pending"
           /\ rides[me].status = "Pending" /\ rides[ot].status = "Pending"
           /\ Len(rides[me].conversations) = 2

----------------------------------------------------------------------------
(* C19 *)

\* C19: a confirm by a participant whose own ref is confirmed already, or
\* whose counterpart's ref is declined or confirmed, is answered with the
\* conflict (409) and changes nothing.
C19_ConfirmConflicts ==
    \A u \in Users, cid \in LiveConvs :
        LET a   == convs[cid].rideRequestA
            b   == convs[cid].rideRequestB
            me  == rideOf(u, cid)
            ot  == otherRide(cid, me)
            res == confirmRide(rides, convs, u, cid)
        IN  (/\ u \in {rides[a].userId, rides[b].userId}
             /\ \/ refStatus(me, cid) = "confirmed"
                \/ refStatus(ot, cid) \in {"declined", "confirmed"})
            => /\ res.code = 409
               /\ res.rides = rides

\* Two calls that meet the conflict: the confirm of a rider whose ref is
\* confirmed, and the confirm of a rider who is not Confirmed on a
\* conversation whose counterpart ref is declined.
C19_Witness ==
    /\ \E u \in Users, cid \in LiveConvs :
          /\ rides[rideOf(u, cid)].userId = u
          /\ refStatus(rideOf(u, cid), cid) = "confirmed"
          /\ confirmRide(rides, convs, u, cid).code = 409
    /\ \E u \in Users, cid \in LiveConvs :
          /\ rides[rideOf(u, cid)].userId = u
          /\ rides[rideOf(u, cid)].status # "Confirmed"
          /\ refStatus(otherRide(cid, rideOf(u, cid)), cid) = "declined"
          /\ confirmRide(rides, convs, u, cid).code = 409

----------------------------------------------------------------------------
(* C20 *)

\* u owns one of the rides of conversation cid.
ownsRideOf(u, cid) ==
    \E r \in {convs[cid].rideRequestA, convs[cid].rideRequestB} \cap DOMAIN rides :
        rides[r].userId = u

\* C20: confirm, decline and sendMessage by an actor who owns neither of
\* the two rides of the conversation are rejected and change no ride, no
\* ref and no message list; the answer is not-participant (403) for
\* confirm and decline on a conversation whose two rides exist and for
\* every sendMessage whose content is well formed.
C20_OutsidersRejected ==
    \A u \in Users, cid \in DOMAIN convs :
        ~ownsRideOf(u, cid) =>
           LET c == confirmRide(rides, convs, u, cid)
               d == declineConversation(rides, convs, u, cid)
           IN  /\ c.code # 200 /\ c.rides = rides
               /\ d.code # 200 /\ d.rides = rides
               /\ cid \in LiveConvs => c.code = 403 /\ d.code = 403
               /\ \A length \in ContentLengths, expired \in BOOLEAN :
                     LET m == sendMessage(convs, rides, u, cid, length, expired) IN
                     /\ m.code # 201
                     /\ m.convs = convs
                     /\ (length > 0 /\ length <= MaxContentLength) => m.code = 403

\* A conversation between two existing rides that holds a message, and a
\* third rider, with a ride of their own, whose confirm, decline and
\* sendMessage on it are answered 403.
C20_Witness ==
    \E u \in Users, cid \in LiveConvs :
        /\ ~ownsRideOf(u, cid)
        /\ users[u].currentRideRequest \in DOMAIN rides
        /\ Len(convs[cid].messages) > 0
        /\ refStatus(convs[cid].rideRequestA, cid) \in ActiveStatuses
        /\ confirmRide(rides, convs, u, cid).code = 403
        /\ declineConversation(rides, convs, u, cid).code = 403
        /\ sendMessage(convs, rides, u, cid, 3, FALSE).code = 403

----------------------------------------------------------------------------
(* C11 *)

\* C11: between the commit of deleteRide's transaction and the removal of
\* the ride document, whenever the counterpart's ref for a conversation of
\* the ride being deleted is declined, the ride's own ref for that
\* conversation is declined too.
C11_WindowMirrorSymmetry ==
    \A u \in Users :
        txn[u].op = "deleteRide" =>
           LET r == txn[u].rideId IN
           \A i \in 1..Len(rides[r].conversations) :
              LET ref == rides[r].conversations[i] IN
              (/\ ref.rideId \in DOMAIN rides
               /\ refStatus(ref.rideId, ref.conversationId) = "declined")
              => ref.status = "declined"

----------------------------------------------------------------------------
(* C12 *)

\* The conversations between rides r1 and r2 with a ref, on either ride,
\* that is not declined.
nonDeclinedBetween(r1, r2) ==
    {c \in convsBetween(r1, r2) :
        refStatus(r1, c) # "declined" \/ refStatus(r2, c) # "declined"}

\* C12: in every reachable state, also while and after two owners
\* initiate towards each other concurrently, at most one Conversation
\* between any two rides has refs that are not declined.
C12_OneLiveConversationPerPair ==
    \A r1 \in DOMAIN rides, r2 \in DOMAIN rides :
        r1 # r2 => Cardinality(nonDeclinedBetween(r1, r2)) <= 1

\* Two riders have initiated towards each other at once: one transaction
\* committed, the other met the write conflict, ran again and was rejected
\* as a duplicate; one Conversation links the two rides.
C12_Witness ==
    /\ race.phase = "initiate"
    /\ Quiescent
    /\ race.retried
    /\ {race.codes[u] : u \in race.callers} = {201, 409}
    /\ \E u \in race.callers, v \in race.callers :
          /\ u # v
          /\ Cardinality(convsBetween(users[u].currentRideRequest,
                                      users[v].currentRideRequest)) = 1
          /\ Cardinality(nonDeclinedBetween(users[u].currentRideRequest,
                                            users[v].currentRideRequest)) = 1
          /\ convsBetween(users[u].currentRideRequest,
                          users[v].currentRideRequest) \cap DOMAIN race.convs0 = {}

----------------------------------------------------------------------------
(* Rides that expire.  RideRequestSchema has a TTL index on departureTime  *)
(* with expireAfterSeconds 0: once the departure time has passed the       *)
(* database removes the ride document on its own, behind the back of every *)
(* handler.  The user's currentRideRequest and the refs of other rides     *)
(* that point at the ride are left as they are.                            *)

\* The instants the clock shows: the start and the default departure time.
Clock == {0, DefaultDeparture}

\* Time passes.
Tick(t) ==
    /\ Quiescent
    /\ t > now
    /\ now' = t
    /\ lastOp' = Response("tick", 0, t, 0, "none", FALSE)
    /\ race' = NoRace
    /\ UNCHANGED <<rides, users, convs, created, confirmedBy, txn, sessions>>

\* The TTL monitor removes a ride whose departure time has passed.
ExpireRide(r) ==
    /\ Quiescent
    /\ r \in DOMAIN rides
    /\ rides[r].departureTime <= now
    /\ rides' = findByIdAndDelete(rides, r)
    /\ lastOp' = Response("expire", 0, r, 0, "none", TRUE)
    /\ race' = NoRace
    /\ UNCHANGED <<users, convs, created, confirmedBy, txn, now, sessions>>

MaxExpiryConvs == 1

ExpiryInitiate(u, target) == InitiateWithin(u, target, MaxExpiryConvs)

ExpiryNext ==
    \/ \E u \in SpecUsers : CreateRide(u)
    \/ \E u \in SpecUsers, target \in RideIds : ExpiryInitiate(u, target)
    \/ \E u \in SpecUsers : DeleteRide(u)
    \/ \E t \in Clock : Tick(t)
    \/ \E r \in RideIds : ExpireRide(r)

ExpirySpec == Init /\ [][ExpiryNext]_vars

\* The users whose currentRideRequest names a ride that no longer exists.
dangling(U, R) ==
    {u \in Users : U[u].currentRideRequest # 0 /\ U[u].currentRideRequest \notin DOMAIN R}

----------------------------------------------------------------------------
\* C21: when deleteRide is called by an owner whose current-ride pointer
\* references a ride that no longer exists, the call returns not_found and
\* afterwards the owner's current-ride pointer is cleared.  What the call
\* leaves in the store is the outcome of its transaction, the handler
\* writing nothing after a throw.
C21_DanglingPointerCleared ==
    \A u \in dangling(users, rides) :
        LET res == deleteRideTransaction(rides, users, u) IN
           /\ res.code = 404
           /\ res.users[u].currentRideRequest = 0


----------------------------------------------------------------------------
(* Two sendMessage calls in flight at once.  sendMessage runs in no        *)
(* transaction: it reads the conversation, checks it, pushes the message   *)
(* onto its in-memory copy and saves the copy.  Mongoose saves an array    *)
(* that was only pushed to with $push, which appends to the array as it    *)
(* is stored, whatever another call appended since the read; an array      *)
(* that was assigned (the pre-save hook's slice) is written whole.         *)

\* Messages that the conversation holds when the observation starts.
MessagesBefore == MessageLimit - 4

\* The store after riders 1 and 2 created their rides, rider 2 initiated
\* towards rider 1 and the two exchanged MessagesBefore messages in turn.
ChatStore ==
    LET u0 == [u \in Users |-> [currentRideRequest |-> 0,
                                 requestCount |-> [count |-> 0, lastReset |-> 0]]]
        a == createRideRequest(<<>>, u0, 1, rideIdOf(1, 1),
                               DefaultDestination, DefaultDeparture, 0)
        b == createRideRequest(a.rides, a.users, 2, rideIdOf(2, 1),
                               DefaultDestination, DefaultDeparture, 0)
        cid == convIdOf(rideIdOf(2, 1), rideIdOf(1, 1))
        i == initiateConversation(b.rides, b.users, <<>>, 2, rideIdOf(1, 1), cid)
    IN [rides |-> i.rides, users |-> b.users,
        convs |-> [i.convs EXCEPT ![cid].messages =
                      [k \in 1..MessagesBefore |->
                          [senderId |-> IF k % 2 = 1 THEN 2 ELSE 1, length |-> 3]]]]

MessageRaceInit ==
    /\ rides = ChatStore.rides
    /\ users = ChatStore.users
    /\ convs = ChatStore.convs
    /\ created = [u \in Users |-> IF u \in {1, 2} THEN 1 ELSE 0]
    /\ lastOp = Response("none", 0, 0, 0, "none", FALSE)
    /\ confirmedBy = [c \in ConvIds |-> {}]
    /\ txn = [u \in Users |-> NoTxn]
    /\ race = NoRace
    /\ now = 0
    /\ sessions = [u \in Users |-> NoSession]

\* The first half of sendMessage: the conversation is read and checked and
\* the message pushed onto the copy in memory.  read is the number of
\* messages the copy held when it was read.
ReadConversation(u, cid, length) ==
    /\ txn[u] = NoTxn
    /\ sendMessage(convs, rides, u, cid, length, FALSE).code = 201
    /\ txn' = [txn EXCEPT ![u] =
                  [op |-> "sendMessage", cid |-> cid, read |-> Len(convs[cid].messages),
                   messages |-> Append(convs[cid].messages,
                                       [senderId |-> u, length |-> length])]]
    /\ UNCHANGED <<rides, users, convs, created, lastOp, confirmedBy, race, now, sessions>>

saveMessages_set(stored, read, mem) == trimMessages(mem)

\* conversation.save() of a copy read when the array held `read` messages:
\* the pre-save hook trims the copy; a trimmed copy is written whole, a
\* copy that was only pushed to appends its new messages to the stored
\* array.
saveMessages(stored, read, mem) ==
    IF trimMessages(mem) # mem THEN trimMessages(mem)
    ELSE stored \o SubSeq(mem, read + 1, Len(mem))

\* The second half of sendMessage: the copy is saved and 201 answered.
SaveConversation(u) ==
    /\ txn[u] # NoTxn
    /\ txn[u].op = "sendMessage"
    /\ txn[u].cid \in DOMAIN convs
    /\ convs' = [convs EXCEPT ![txn[u].cid].messages =
                    saveMessages(@, txn[u].read, txn[u].messages)]
    /\ lastOp' = Response("sendMessage", u, txn[u].cid, 201, "none", TRUE)
    /\ txn' = [txn EXCEPT ![u] = NoTxn]
    /\ UNCHANGED <<rides, users, created, confirmedBy, race, now, sessions>>

MessageRaceNext ==
    \/ \E u \in SpecUsers, cid \in ConvInputs, length \in ContentLengths :
          ReadConversation(u, cid, length)
    \/ \E u \in SpecUsers : SaveConversation(u)

MessageRaceSpec == MessageRaceInit /\ [][MessageRaceNext]_vars

----------------------------------------------------------------------------
\* C22: in every reachable state a Conversation holds at most the cap of 20
\* messages, including when the two participants call sendMessage
\* concurrently on a conversation that holds 19 messages.
C22_MessageCap ==
    \A c \in DOMAIN convs : Len(convs[c].messages) <= MessageLimit

----------------------------------------------------------------------------
----------------------------------------------------------------------------
(* deleteRideRequest against other calls.  Its transaction runs as the     *)
(* transactions above: on a snapshot, every save of a counterpart failing  *)
(* with a write conflict when the counterpart has been written since, the  *)
(* callback then running again from its start.  affectedConversations is   *)
(* declared once per call, outside the callback, and pushed to inside it   *)
(* after every save that went through: what an attempt pushed before it    *)
(* aborted stays in the array.  While the delete is in flight the other    *)
(* riders decline and initiate, each in a transaction of its own that      *)
(* commits at once.                                                        *)

\* Number of Conversation documents created in one behaviour of
\* DeleteRaceSpec.
MaxDeleteRaceConvs == 2

\* The call arrives: the handler declares affectedConversations = [].
StartDelete(u) ==
    /\ Quiescent
    /\ deleteRideTransaction(rides, users, u).code = 200
    /\ txn' = [txn EXCEPT ![u] = [op |-> "deleteRide", phase |-> "ready",
                                  rideId |-> users[u].currentRideRequest,
                                  affected |-> <<>>]]
    /\ race' = [phase |-> "delete", user |-> u, rideId |-> users[u].currentRideRequest,
                before |-> <<>>, after |-> <<>>, retried |-> FALSE]
    /\ UNCHANGED <<rides, users, convs, created, lastOp, confirmedBy, now, sessions>>

\* withTransaction starts the transaction (again): the snapshot is taken.
BeginDelete(u) ==
    /\ txn[u] # NoTxn
    /\ txn[u].op = "deleteRide"
    /\ txn[u].phase = "ready"
    /\ txn' = [txn EXCEPT ![u] = [op |-> "deleteRide", phase |-> "active",
                                  rideId |-> @.rideId, affected |-> @.affected,
                                  snap |-> rides, snapUsers |-> users]]
    /\ UNCHANGED <<rides, users, convs, created, lastOp, confirmedBy, race, now, sessions>>

\* The counterparts the callback run on the snapshot saves, in order.
savedCounterparts(res) ==
    [i \in 1..Len(res.affected) |-> res.affected[i].counterpartRideId]

\* The index of the first save that meets a write conflict; 0 when none
\* does.
firstConflict(snap, res) ==
    LET saved == savedCounterparts(res)
        bad == {i \in 1..Len(saved) : writeConflict(snap, {saved[i]})}
    IN IF bad = {} THEN 0 ELSE CHOOSE i \in bad : \A j \in bad : i <= j

\* What the callback pushed onto affectedConversations before its k-th
\* save failed.
pushedBeforeAbort(res, k) == SubSeq(res.affected, 1, k - 1)

\* The callback ran to its end: the transaction commits.
CommitDelete(u) ==
    /\ txn[u] # NoTxn
    /\ txn[u].op = "deleteRide"
    /\ txn[u].phase = "active"
    /\ LET snap == txn[u].snap
           res == deleteRideTransaction(snap, txn[u].snapUsers, u)
           ids == written(snap, res)
       IN  /\ res.code = 200
           /\ firstConflict(snap, res) = 0
           /\ rides' = [id \in DOMAIN rides |->
                          IF id \in ids
                          THEN save(rides, id, snap[id], res.rides[id])[id]
                          ELSE rides[id]]
           /\ users' = [users EXCEPT ![u].currentRideRequest = 0]
           /\ txn' = [txn EXCEPT ![u] = [op |-> "deleteRide", phase |-> "committed",
                                         rideId |-> res.rideRequestIdToDelete,
                                         affected |-> txn[u].affected \o res.affected]]
           /\ race' = [race EXCEPT !.before = rides, !.after = rides']
    /\ UNCHANGED <<convs, created, lastOp, confirmedBy, now, sessions>>

\* A save of the callback met a write conflict: the transaction aborts
\* and withTransaction runs the callback again.
AbortDelete(u) ==
    /\ txn[u] # NoTxn
    /\ txn[u].op = "deleteRide"
    /\ txn[u].phase = "active"
    /\ LET snap == txn[u].snap
           res == deleteRideTransaction(snap, txn[u].snapUsers, u)
           k == firstConflict(snap, res)
       IN  /\ res.code = 200
           /\ k # 0
           /\ txn' = [txn EXCEPT ![u] = [op |-> "deleteRide", phase |-> "ready",
                                         rideId |-> @.rideId,
                                         affected |-> @.affected \o pushedBeforeAbort(res, k)]]
    /\ race' = [race EXCEPT !.retried = TRUE]
    /\ UNCHANGED <<rides, users, convs, created, lastOp, confirmedBy, now, sessions>>

\* Another rider declines a conversation while the delete is in flight.
OtherDecline(v, cid) ==
    /\ ~Quiescent
    /\ txn[v] = NoTxn
    /\ \E u \in Users : txn[u] # NoTxn /\ txn[u].phase \in {"ready", "active"}
    /\ LET res == declineConversation(rides, convs, v, cid) IN
       /\ res.code = 200
       /\ res.rides # rides
       /\ rides' = res.rides
       /\ lastOp' = Response("decline", v, cid, res.code, res.msg, TRUE)
    /\ UNCHANGED <<users, convs, created, confirmedBy, txn, race, now, sessions>>

DeleteRaceInitiate(u, target) == InitiateWithin(u, target, MaxDeleteRaceConvs)

DeleteRaceNext ==
    \/ \E u \in SpecUsers : CreateRide(u)
    \/ \E u \in SpecUsers, target \in RideIds : DeleteRaceInitiate(u, target)
    \/ \E u \in SpecUsers : StartDelete(u)
    \/ \E u \in SpecUsers : BeginDelete(u)
    \/ \E u \in SpecUsers : CommitDelete(u)
    \/ \E u \in SpecUsers : AbortDelete(u)
    \/ \E u \in SpecUsers : DeleteRemove(u)
    \/ \E v \in SpecUsers, cid \in ConvInputs : OtherDecline(v, cid)

DeleteRaceSpec == Init /\ [][DeleteRaceNext]_vars

\* A deleteRide call has just answered and its history is at hand.
DeleteAnswered ==
    /\ race.phase = "delete"
    /\ lastOp.op = "deleteRide"
    /\ lastOp.user = race.user
    /\ txn[race.user] = NoTxn

----------------------------------------------------------------------------
\* C24: every event published by deleteRide is published after its
\* transaction has committed, and the payload's counterpart ride status and
\* ref status equal the committed store state; no event is published for a
\* change made by a transaction attempt that aborted, including an attempt
\* that was aborted on contention and then retried.  The second part is
\* stated of the counterpart's ride and ref as the commit left them (the
\* deleted ride is no longer stored when the events go out); the third as:
\* every event reports a ref that the committed transaction declined, and
\* no conversation is reported twice.
C24_EventsOfCommittedChanges ==
    /\ [](DeleteAnswered =>
             LET ev == lastOp.events IN
             /\ \A i \in 1..Len(ev) :
                   LET c == ev[i].conversationId
                       r == otherRide(c, race.rideId)
                   IN /\ r \in DOMAIN race.after
                      /\ ev[i].rideBStatus = race.after[r].status
                      /\ ev[i].conversationStatusB = refStatusIn(race.after, r, c)
                      /\ refStatusIn(race.before, r, c) # "declined"
             /\ \A i, j \in 1..Len(ev) :
                   ev[i].conversationId = ev[j].conversationId => i = j)
    /\ [][(lastOp' # lastOp /\ lastOp'.events # <<>>)
             => (txn[lastOp'.user] # NoTxn /\ txn[lastOp'.user].phase = "committed")]_vars

----------------------------------------------------------------------------
\* The conversations for which some ride that stays stored has another ref
\* status after the step than before it.
changedConvs ==
    {c \in DOMAIN convs :
        \E r \in DOMAIN rides \cap DOMAIN rides' :
            refStatusIn(rides, r, c) # refStatusIn(rides', r, c)}

\* The call that has just answered published an event of the given name on
\* the topic of conversation c.
published(eventName, c) ==
    \E i \in 1..Len(lastOp'.events) :
        /\ lastOp'.events[i].eventName = eventName
        /\ lastOp'.events[i].conversationId = c

\* C25: every committed state change made by confirm, decline, sendMessage
\* or deleteRide is followed by a publish on the affected conversation's
\* topic: a status-changed event ('conversationUpdate') after confirm,
\* decline and deleteRide, and a message-appended event ('newMessage') after
\* sendMessage.
C25_ChangesArePublished ==
    [][/\ (lastOp'.op \in {"confirm", "decline", "deleteRide"} /\ rides' # rides)
          => \A c \in changedConvs : published("conversationUpdate", c)
       /\ (lastOp'.op = "sendMessage" /\ convs' # convs)
          => published("newMessage", lastOp'.arg)]_vars

----------------------------------------------------------------------------
(* Sockets.  A user's client connects, is authenticated and joins, once,   *)
(* the rooms of the conversations its current ride holds a ref for; later  *)
(* it disconnects.  The calls run one at a time as in Spec.                *)

\* The rooms io.on('connection') joins for user u: the conversationId of
\* every ref of the ride the user's currentRideRequest names, none when the
\* ride does not exist.
roomsToJoin(R, U, u) ==
    LET id == U[u].currentRideRequest IN
    IF id = 0 \/ id \notin DOMAIN R THEN {}
    ELSE {R[id].conversations[i].conversationId : i \in 1..Len(R[id].conversations)}

\* io.on('connection') for an authenticated user.
Connect(u) ==
    /\ Quiescent
    /\ ~sessions[u].connected
    /\ sessions' = [sessions EXCEPT ![u] =
                       [connected |-> TRUE, rooms |-> roomsToJoin(rides, users, u),
                        received |-> <<>>]]
    /\ UNCHANGED <<rides, users, convs, created, lastOp, confirmedBy, txn, race, now>>

\* socket.on('disconnect'): the socket and its rooms are gone.
Disconnect(u) ==
    /\ Quiescent
    /\ sessions[u].connected
    /\ sessions' = [sessions EXCEPT ![u] = NoSession]
    /\ UNCHANGED <<rides, users, convs, created, lastOp, confirmedBy, txn, race, now>>

\* Number of Conversation documents created in one behaviour of
\* SessionSpec.
MaxSessionConvs == 2

\* The users whose client connects.
SessionUsers == {1, 2}

SessionInitiate(u, target) == InitiateWithin(u, target, MaxSessionConvs)

SessionNext ==
    \/ \E u \in SpecUsers : CreateRide(u)
    \/ \E u \in SpecUsers, target \in RideIds : SessionInitiate(u, target)
    \/ \E u \in SpecUsers, cid \in ConvInputs : Confirm(u, cid)
    \/ \E u \in SpecUsers, cid \in ConvInputs : Decline(u, cid)
    \/ \E u \in SpecUsers : DeleteRide(u)
    \/ \E u \in SessionUsers : Connect(u)
    \/ \E u \in SessionUsers : Disconnect(u)

SessionSpec == Init /\ [][SessionNext]_vars

\* The conversations of the refs of user u's current ride whose status is
\* in S.
convsOfCurrentRide(u, S) ==
    LET id == users[u].currentRideRequest IN
    IF id = 0 \/ id \notin DOMAIN rides THEN {}
    ELSE {rides[id].conversations[i].conversationId : i \in refsWith(rides[id], S)}

----------------------------------------------------------------------------
\* C26: at session start a session is subscribed to the conversation of
\* every active (pending, awaiting_confirmation or confirmed) ref held by
\* the session owner's current ride at that moment and to no conversation
\* in which that ride holds no ref, and a publish for conversation C is
\* delivered only to sessions subscribed to C: a session receives an event
\* only in the step that publishes it, and only for a room it has joined.
C26_SubscribedAtStart ==
    /\ [](\A u \in Users : \A i \in 1..Len(sessions[u].received) :
             sessions[u].received[i].conversationId \in sessions[u].rooms)
    /\ [][\A u \in Users :
             /\ (~sessions[u].connected /\ sessions'[u].connected)
                => /\ convsOfCurrentRide(u, {"pending", "awaiting_confirmation",
                                             "confirmed"}) \subseteq sessions'[u].rooms
                   /\ sessions'[u].rooms \subseteq
                         convsOfCurrentRide(u, {"pending", "awaiting_confirmation",
                                                "confirmed", "declined"})
                   /\ sessions'[u].received = <<>>
             /\ (sessions[u].connected /\ sessions'[u].connected)
                => /\ sessions'[u].rooms = sessions[u].rooms
                   /\ \E k \in 0..Len(lastOp'.events) :
                         /\ Len(sessions'[u].received) = Len(sessions[u].received) + k
                         /\ SubSeq(sessions'[u].received, 1, Len(sessions[u].received))
                               = sessions[u].received
                         /\ \A i \in 1..k :
                               \E j \in 1..Len(lastOp'.events) :
                                  sessions'[u].received[Len(sessions[u].received) + i]
                                     = lastOp'.events[j]]_vars

\* Two sessions are open, the first subscribed to two conversations, one
\* of which the second is not subscribed to; an event for that conversation
\* has been delivered to the first session and none to the second.
C26_Witness ==
    \E u, v \in Users :
        /\ sessions[u].connected /\ sessions[v].connected
        /\ Cardinality(sessions[u].rooms) = 2
        /\ \E c \in sessions[u].rooms \ sessions[v].rooms :
              /\ Len(sessions[u].received) = 1
              /\ sessions[u].received[1].conversationId = c
        /\ sessions[v].received = <<>>

----------------------------------------------------------------------------
(* findMatchesForCurrentRide and the matching service                      *)

\* The time window for matching, in minutes on either side.
MATCH_TIME_WINDOW_MINUTES == 60

excludedRideIds_anyRef(userRideRequest, id) ==
    {id} \cup {userRideRequest.conversations[i].rideId :
                  i \in 1..Len(userRideRequest.conversations)}

\* The requester's own ride and the rides its confirmed refs point at.
excludedRideIds(userRideRequest, id) ==
    {id} \cup {userRideRequest.conversations[i].rideId :
                  i \in refsWith(userRideRequest, {"confirmed"})}

\* matchingService.findPotentialMatches for the ride stored under id: the
\* ids of the rides that meet matchCriteria.
findPotentialMatches(R, id) ==
    LET userRideRequest == R[id]
        minDeparture == userRideRequest.departureTime - MATCH_TIME_WINDOW_MINUTES
        maxDeparture == userRideRequest.departureTime + MATCH_TIME_WINDOW_MINUTES
    IN {x \in DOMAIN R :
           /\ x \notin excludedRideIds(userRideRequest, id)
           /\ R[x].userId # userRideRequest.userId
           /\ R[x].destination = userRideRequest.destination
           /\ R[x].status \in {"Available", "Pending"}
           /\ R[x].departureTime >= minDeparture
           /\ R[x].departureTime <= maxDeparture}

\* The lists that hold every element of S once.
orderings(S) ==
    {f \in [1..Cardinality(S) -> S] : \A i, j \in 1..Cardinality(S) : f[i] = f[j] => i = j}

\* findMatchesForCurrentRide for user u: 404 without a current ride or
\* when it is not stored; otherwise the rides whose ids the service
\* returned are fetched again with RideRequest.find({ _id: { $in: ids } }),
\* a query with no sort and no limit, so they come in whatever order the
\* database yields: lists is every list the call may answer with.
findMatchesForCurrentRide(R, U, u) ==
    LET id == U[u].currentRideRequest IN
    IF id = 0 THEN [code |-> 404, lists |-> {}]
    ELSE IF id \notin DOMAIN R THEN [code |-> 404, lists |-> {}]
    ELSE [code |-> 200,
          lists |-> orderings({x \in DOMAIN R : x \in findPotentialMatches(R, id)})]

\* The call answers with one of the lists; nothing is written.
FindMatches(u) ==
    /\ Quiescent
    /\ LET res == findMatchesForCurrentRide(rides, users, u) IN
       /\ res.code = 200
       /\ \E matches \in res.lists :
             lastOp' = [Response("findMatches", u, users[u].currentRideRequest, 200,
                                 "none", FALSE)
                           EXCEPT !.matches = matches]
    /\ race' = NoRace
    /\ UNCHANGED <<rides, users, convs, created, confirmedBy, txn, now, sessions>>

\* The destinations and the departure times the riders of MatchSpec ask
\* for: an hour, half an hour and ninety minutes apart.
MatchDestinations == {"Airport", "Bus Terminal"}
MatchDepartures == {60, 120, 150}

\* Number of Conversation documents created in one behaviour of MatchSpec.
MaxMatchConvs == 1

MatchInitiate(u, target) == InitiateWithin(u, target, MaxMatchConvs)

MatchNext ==
    \/ \E u \in SpecUsers, destination \in MatchDestinations,
          departureTime \in MatchDepartures : CreateRideWith(u, destination, departureTime)
    \/ \E u \in SpecUsers, target \in RideIds : MatchInitiate(u, target)
    \/ \E u \in SpecUsers, cid \in ConvInputs : Confirm(u, cid)
    \/ \E u \in SpecUsers, cid \in ConvInputs : Decline(u, cid)
    \/ \E u \in SpecUsers : FindMatches(u)

MatchSpec == Init /\ [][MatchNext]_vars

\* |a - b|
absDiff(a, b) == IF a >= b THEN a - b ELSE b - a

\* The elements of a list.
elements(list) == {list[i] : i \in 1..Len(list)}

----------------------------------------------------------------------------
\* C27: find(R) returns only rides X such that X is not R and is not owned
\* by R's owner, X has the same destination as R, X's status is Available
\* or Pending (never Confirmed), X's departure time lies within the
\* configured window around R's, and R holds no confirmed ref pointing at
\* X; every existing ride meeting these conditions is a candidate, and find
\* changes no state.
C27_FindFilters ==
    /\ [](\A u \in Users :
             LET id == users[u].currentRideRequest
                 res == findMatchesForCurrentRide(rides, users, u)
             IN (id # 0 /\ id \in DOMAIN rides)
                => /\ res.code = 200
                   /\ res.lists # {}
                   /\ \A list \in res.lists :
                         elements(list) =
                            {x \in DOMAIN rides :
                                /\ x # id
                                /\ rides[x].userId # rides[id].userId
                                /\ rides[x].destination = rides[id].destination
                                /\ rides[x].status \in {"Available", "Pending"}
                                /\ rides[x].status # "Confirmed"
                                /\ absDiff(rides[x].departureTime, rides[id].departureTime)
                                      <= MATCH_TIME_WINDOW_MINUTES
                                /\ \A i \in 1..Len(rides[id].conversations) :
                                      rides[id].conversations[i].status = "confirmed"
                                         => rides[id].conversations[i].rideId # x})
    /\ [][lastOp'.op = "findMatches" => UNCHANGED store]_vars

\* A findMatches call has answered with one ride, to which the requester's
\* ride holds a pending ref, while a third ride to the same destination
\* departs outside the window and a ride of another destination departs
\* inside it.
C27_Witness ==
    /\ lastOp.op = "findMatches"
    /\ Len(lastOp.matches) = 1
    /\ lastOp.arg \in DOMAIN rides
    /\ refsWith(rides[lastOp.arg], {"pending"}) # {}
    /\ \A i \in refsWith(rides[lastOp.arg], {"pending"}) :
          rides[lastOp.arg].conversations[i].rideId = lastOp.matches[1]
    /\ \E x \in DOMAIN rides \ {lastOp.arg} :
          \/ /\ rides[x].destination = rides[lastOp.arg].destination
             /\ absDiff(rides[x].departureTime, rides[lastOp.arg].departureTime)
                   > MATCH_TIME_WINDOW_MINUTES
          \/ /\ rides[x].destination # rides[lastOp.arg].destination
             /\ absDiff(rides[x].departureTime, rides[lastOp.arg].departureTime)
                   <= MATCH_TIME_WINDOW_MINUTES

----------------------------------------------------------------------------
\* The number of matches the earlier matching service limits its answer to;
\* the service in use has no limit.
MAX_MATCH_RESULTS == 15

\* C28: the list returned by findMatches is ordered by ascending absolute
\* difference between each candidate's departure time and the requester's,
\* and contains at most the configured maximum number of rides.
C28_RankedAndTruncated ==
    (lastOp.op = "findMatches" /\ lastOp.arg \in DOMAIN rides
        /\ elements(lastOp.matches) \subseteq DOMAIN rides)
    => LET matches == lastOp.matches
           timeDifference(i) == absDiff(rides[matches[i]].departureTime,
                                        rides[lastOp.arg].departureTime)
       IN /\ \A i, j \in 1..Len(matches) :
                i <= j => timeDifference(i) <= timeDifference(j)
          /\ Len(matches) <= MAX_MATCH_RESULTS

----------------------------------------------------------------------------
(* Several calls of one owner in flight at once.  createRideRequest runs   *)
(* in no transaction: it reads the user, checks it, saves the new ride and *)
(* then saves the user, and another call of the same owner may run between *)
(* any two of these.  deleteRideRequest commits its transaction and then   *)
(* removes the ride.  The riders here never pair up, so the delete's       *)
(* transaction writes the user only.                                       *)

\* Calls of one owner that may be in flight at once.
MaxRequests == 2

\* Rides one owner creates in one behaviour of OwnerSpec or QuotaSpec.
MaxOwnerRides == 3

\* Days that pass in one behaviour of OwnerSpec or QuotaSpec.
MaxDays == 1

Requests == 1..MaxRequests

\* The owners that send calls.
Owners == {1}

NoCall == [phase |-> "none"]

\* The calls of owner u in flight, by request.
callsOf(u) == IF txn[u] = NoTxn THEN [k \in Requests |-> NoCall] ELSE txn[u].calls

\* txn with request k of owner u replaced by call c.
setCall(u, k, c) ==
    LET cs == [callsOf(u) EXCEPT ![k] = c] IN
    [txn EXCEPT ![u] = IF \A j \in Requests : cs[j] = NoCall
                       THEN NoTxn
                       ELSE [op |-> "calls", calls |-> cs]]

\* ObjectIds are handed out in order: the id of the next ride.
RECURSIVE sumCreated(_)
sumCreated(S) ==
    IF S = {} THEN 0
    ELSE LET u == CHOOSE v \in S : TRUE IN created[u] + sumCreated(S \ {u})

nextRideId == sumCreated(Users) + 1

\* The history kept of the owner's calls: the day of the clock, the number
\* of createRide calls of the owner that succeeded on that day, and the
\* number of rides the owner had created when the observation started.
OwnerHistory(today, created0) ==
    [phase |-> "owner", day |-> dayOf(now), today |-> today, created0 |-> created0]

\* createRideRequest up to its checks: the request is validated, the user
\* read and checked; the call goes on with its copy of the user.
CreateRead(u, k) ==
    /\ callsOf(u)[k] = NoCall
    /\ validateRideRequest(DefaultDestination, now + DefaultDeparture, now) = 0
    /\ checkUser(rides, users[u], now).code = 0
    /\ txn' = setCall(u, k, [phase |-> "read", read |-> users[u],
                             user |-> checkUser(rides, users[u], now).user])
    /\ UNCHANGED <<rides, users, convs, created, lastOp, confirmedBy, race, now, sessions>>

\* newRideRequest.save()
CreateInsert(u, k) ==
    /\ callsOf(u)[k].phase = "read"
    /\ created[u] < race.created0 + MaxOwnerRides
    /\ rides' = insertRide(rides, nextRideId,
                           newRideRequest(u, DefaultDestination, now + DefaultDeparture))
    /\ created' = [created EXCEPT ![u] = @ + 1]
    /\ txn' = setCall(u, k, [callsOf(u)[k] EXCEPT !.phase = "inserted"]
                               @@ [id |-> nextRideId])
    /\ UNCHANGED <<users, convs, lastOp, confirmedBy, race, now, sessions>>

\* user.save() of a copy: the paths that were changed since the copy was
\* read are written, the others stay as stored.
saveUser(stored, read, mem) ==
    [currentRideRequest |->
         IF mem.currentRideRequest # read.currentRideRequest
         THEN mem.currentRideRequest ELSE stored.currentRideRequest,
     requestCount |->
         [count |-> IF mem.requestCount.count # read.requestCount.count
                    THEN mem.requestCount.count ELSE stored.requestCount.count,
          lastReset |-> IF mem.requestCount.lastReset # read.requestCount.lastReset
                        THEN mem.requestCount.lastReset
                        ELSE stored.requestCount.lastReset]]

\* The count is incremented and the ride linked on the copy, the copy is
\* saved and the call answers 201.
CreateSave(u, k) ==
    /\ callsOf(u)[k].phase = "inserted"
    /\ LET call == callsOf(u)[k] IN
       /\ users' = [users EXCEPT ![u] =
                       saveUser(@, call.read, linkRide(call.user, call.id, now))]
       /\ lastOp' = Response("createRide", u, call.id, 201, "none", TRUE)
    /\ race' = [race EXCEPT !.today = @ + 1]
    /\ txn' = setCall(u, k, NoCall)
    /\ UNCHANGED <<rides, convs, created, confirmedBy, now, sessions>>

\* deleteRideRequest's transaction commits.
OwnerDeleteCommit(u, k) ==
    /\ callsOf(u)[k] = NoCall
    /\ LET res == deleteRideTransaction(rides, users, u) IN
       /\ res.code = 200
       /\ rides' = res.rides
       /\ users' = res.users
       /\ txn' = setCall(u, k, [phase |-> "committed",
                                rideId |-> res.rideRequestIdToDelete,
                                affected |-> res.affected])
    /\ UNCHANGED <<convs, created, lastOp, confirmedBy, race, now, sessions>>

\* The document is removed and the call answers 200.
OwnerDeleteRemove(u, k) ==
    /\ callsOf(u)[k].phase = "committed"
    /\ rides' = findByIdAndDelete(rides, callsOf(u)[k].rideId)
    /\ lastOp' = [Response("deleteRide", u, callsOf(u)[k].rideId, 200, "none", TRUE)
                     EXCEPT !.events = conversationUpdates(callsOf(u)[k].affected)]
    /\ txn' = setCall(u, k, NoCall)
    /\ UNCHANGED <<users, convs, created, confirmedBy, race, now, sessions>>

\* Midnight: the next day starts.
NextDay ==
    /\ dayOf(now) < MaxDays
    /\ now' = (dayOf(now) + 1) * MinutesPerDay
    /\ race' = [race EXCEPT !.day = @ + 1, !.today = 0]
    /\ UNCHANGED <<rides, users, convs, created, lastOp, confirmedBy, txn, sessions>>

\* The state after owner 1 has created and deleted n rides today, one call
\* at a time.
OwnerStart(n) ==
    /\ rides = <<>>
    /\ users = [u \in Users |->
                  [currentRideRequest |-> 0,
                   requestCount |-> [count |-> IF u = 1 THEN n ELSE 0, lastReset |-> 0]]]
    /\ convs = <<>>
    /\ created = [u \in Users |-> IF u = 1 THEN n ELSE 0]
    /\ lastOp = Response("none", 0, 0, 0, "none", FALSE)
    /\ confirmedBy = [c \in ConvIds |-> {}]
    /\ txn = [u \in Users |-> NoTxn]
    /\ now = 0
    /\ sessions = [u \in Users |-> NoSession]
    /\ race = OwnerHistory(n, n)

OwnerInit == OwnerStart(0)

OwnerNext ==
    \/ \E u \in Owners, k \in Requests : CreateRead(u, k)
    \/ \E u \in Owners, k \in Requests : CreateInsert(u, k)
    \/ \E u \in Owners, k \in Requests : CreateSave(u, k)
    \/ \E u \in Owners, k \in Requests : OwnerDeleteCommit(u, k)
    \/ \E u \in Owners, k \in Requests : OwnerDeleteRemove(u, k)
    \/ NextDay

OwnerSpec == OwnerInit /\ [][OwnerNext]_vars

\* The rides stored that user u owns.
ridesOwnedBy(u) == {r \in DOMAIN rides : rides[r].userId = u}

----------------------------------------------------------------------------
\* C29: after any interleaving of createRide and deleteRide calls by the
\* same owner, at most one existing RideRequest is owned by that owner: a
\* createRide issued while the owner already owns an existing ride is
\* rejected as already_active (409) and creates no ride.  Stated of the
\* states in which every call has answered.
C29_OneRidePerOwner ==
    Quiescent =>
        \A u \in Users :
            /\ Cardinality(ridesOwnedBy(u)) <= 1
            /\ ridesOwnedBy(u) # {}
               => LET res == createRideRequest(rides, users, u, nextRideId,
                                               DefaultDestination, now + DefaultDeparture,
                                               now)
                  IN res.code = 409 /\ res.rides = rides

----------------------------------------------------------------------------
\* The same calls, observed from the moment the owner has two rides of
\* today's quota left.
QuotaInit == OwnerStart(MAX_DAILY_REQUESTS - 2)

QuotaSpec == QuotaInit /\ [][OwnerNext]_vars

\* The owner's stored count as it stands for the day of the clock.
dailyCount(u) ==
    IF dayOf(users[u].requestCount.lastReset) = dayOf(now)
    THEN users[u].requestCount.count ELSE 0

\* C30: within one day the number of successful createRide calls by one
\* owner never exceeds the daily quota: createRide is rejected as
\* quota_exceeded (429) once the owner's daily count has reached the quota,
\* each successful createRide increases the count by exactly one, and a
\* rejected createRide creates no ride and leaves the stored count
\* unchanged.
C30_DailyQuota ==
    /\ [](/\ race.today <= MAX_DAILY_REQUESTS
          /\ \A u \in Owners :
                LET res == createRideRequest(rides, users, u, nextRideId,
                                             DefaultDestination, now + DefaultDeparture, now)
                IN /\ (dailyCount(u) >= MAX_DAILY_REQUESTS /\ res.code # 409)
                      => res.code = 429
                   /\ res.code # 201 => res.rides = rides /\ res.users = users)
    /\ [][\A u \in Owners :
             (users'[u].currentRideRequest # users[u].currentRideRequest
                 /\ users'[u].currentRideRequest # 0)
                => /\ lastOp'.op = "createRide" /\ lastOp'.code = 201
                   /\ users'[u].requestCount.count = dailyCount(u) + 1]_vars

----------------------------------------------------------------------------
(* The expiry of a Conversation                                           *)

\* C31: for every Conversation, expiresAt equals the earlier of its two
\* rides' departure times at the moment of initiate plus the fixed buffer
\* of two hours.  Stated of the step that creates the Conversation, of
\* every later step (no call rewrites expiresAt) and, a departure time
\* never changing in a stored ride, of every state in which both rides are
\* still stored.
C31_ExpiresAt ==
    /\ [](\A c \in DOMAIN convs :
             LET a == convs[c].rideRequestA
                 b == convs[c].rideRequestB
             IN (a \in DOMAIN rides /\ b \in DOMAIN rides)
                => \E T \in {rides[a].departureTime, rides[b].departureTime} :
                      /\ T <= rides[a].departureTime
                      /\ T <= rides[b].departureTime
                      /\ convs[c].expiresAt = T + 2 * 60)
    /\ [][\A c \in DOMAIN convs' :
             IF c \in DOMAIN convs
             THEN convs'[c].expiresAt = convs[c].expiresAt
             ELSE LET a == convs'[c].rideRequestA
                      b == convs'[c].rideRequestB
                  IN \E T \in {rides[a].departureTime, rides[b].departureTime} :
                        /\ T <= rides[a].departureTime
                        /\ T <= rides[b].departureTime
                        /\ convs'[c].expiresAt = T + 2 * 60]_vars

\* A Conversation has been initiated by the rider that departs later than
\* the target: the expiry follows the target's departure.
C31_Witness ==
    \E c \in DOMAIN convs :
        /\ rides[convs[c].rideRequestA].departureTime
              > rides[convs[c].rideRequestB].departureTime
        /\ convs[c].expiresAt = rides[convs[c].rideRequestB].departureTime + 120
        /\ lastOp.op = "initiate"

----------------------------------------------------------------------------
(* The match criteria at initiate                                         *)

\* The criteria of findPotentialMatches that depend on the two rides only.
matchCriteria(a, b) ==
    /\ a.destination = b.destination
    /\ absDiff(a.departureTime, b.departureTime) <= MATCH_TIME_WINDOW_MINUTES

\* C32: every Conversation that initiate creates links two rides that have
\* the same destination and whose departure times lie within the matching
\* window of each other.
C32_InitiateRevalidates ==
    [][\A c \in DOMAIN convs' \ DOMAIN convs :
          matchCriteria(rides[convs'[c].rideRequestA],
                        rides[convs'[c].rideRequestB])]_vars

----------------------------------------------------------------------------
(* A Confirmed ride and its other pairings                                *)

\* The positions in ride r's ref list of the refs that are not declined.
nonDeclinedRefs(r) ==
    {i \in 1..Len(rides[r].conversations) : rides[r].conversations[i].status # "declined"}

\* C33: in every reachable state, a ride whose status is Confirmed has
\* exactly one non-declined ref, the confirmed one; every other ref it
\* holds, and the mirrored ref on that other counterpart, is declined, so
\* no pending or awaiting_confirmation pairing involves a Confirmed ride.
C33_ConfirmedRideHasOneLiveRef ==
    \A r \in DOMAIN rides :
        rides[r].status = "Confirmed"
        => /\ Cardinality(nonDeclinedRefs(r)) = 1
           /\ \A i \in 1..Len(rides[r].conversations) :
                 LET ref == rides[r].conversations[i] IN
                 /\ i \in nonDeclinedRefs(r) => ref.status = "confirmed"
                 /\ (i \notin nonDeclinedRefs(r) /\ ref.rideId \in DOMAIN rides)
                       => refStatus(ref.rideId, ref.conversationId) = "declined"
           /\ \A q \in DOMAIN rides :
                 \A j \in 1..Len(rides[q].conversations) :
                    rides[q].conversations[j].rideId = r
                    => rides[q].conversations[j].status \notin ActiveStatuses

\* A mutual confirmation has just made a ride Confirmed that held a second
\* pairing: the ride keeps its confirmed ref, its other ref and the mirror
\* of that ref are declined.
C33_Witness ==
    \E r \in DOMAIN rides :
        /\ rides[r].status = "Confirmed"
        /\ lastOp.op = "confirm" /\ lastOp.msg = "mutual"
        /\ Len(rides[r].conversations) >= 2
        /\ \E i \in 1..Len(rides[r].conversations) :
              LET ref == rides[r].conversations[i] IN
              /\ ref.status = "declined"
              /\ refStatus(ref.rideId, ref.conversationId) = "declined"
              /\ ref.conversationId # lastOp.arg

----------------------------------------------------------------------------
(* The frame of a mutual confirmation                                     *)

\* Ride r held, before the step, a pending or awaiting_confirmation ref
\* towards one of the rides of S.
directCounterpart(r, S) ==
    \E i \in 1..Len(rides[r].conversations) :
        /\ rides[r].conversations[i].rideId \in S
        /\ rides[r].conversations[i].status \in ActiveStatuses

\* C34: a mutual confirmation between R1 and R2 changes only the two
\* confirmed refs, the statuses of R1 and R2, the other pending or
\* awaiting_confirmation refs of R1 and R2 together with their mirrored
\* refs, and the status of those direct counterparts (Pending to Available
\* only); every ref between two rides that are both different from R1 and
\* R2, and every Conversation document, is left unchanged.
C34_MutualConfirmFrame ==
    [][ \A u \in Users, cid \in DOMAIN convs :
          (Confirm(u, cid) /\ lastOp'.msg = "mutual") =>
             LET pair == {convs[cid].rideRequestA, convs[cid].rideRequestB} IN
             /\ convs' = convs
             /\ users' = users
             /\ DOMAIN rides' = DOMAIN rides
             /\ \A r \in DOMAIN rides :
                   LET old == rides[r]
                       new == rides'[r]
                   IN
                   /\ new.userId = old.userId
                   /\ new.destination = old.destination
                   /\ new.departureTime = old.departureTime
                   /\ Len(new.conversations) = Len(old.conversations)
                   /\ IF r \in pair
                      THEN new.status = "Confirmed"
                      ELSE \/ new.status = old.status
                           \/ /\ old.status = "Pending" /\ new.status = "Available"
                              /\ directCounterpart(r, pair)
                   /\ \A i \in 1..Len(old.conversations) :
                         LET o == old.conversations[i]
                             n == new.conversations[i]
                         IN
                         /\ n.rideId = o.rideId
                         /\ n.conversationId = o.conversationId
                         /\ (r \notin pair /\ o.rideId \notin pair) => n = o
                         /\ n.status # o.status
                              => IF o.conversationId = cid
                                 THEN n.status = "confirmed"
                                 ELSE /\ o.status \in ActiveStatuses
                                      /\ n.status = "declined"
      ]_vars

\* A mutual confirmation has just been committed while a direct
\* counterpart of one of the two rides held a pairing with a fourth ride:
\* the counterpart's ref towards the confirmed ride is declined, its
\* pairing with the fourth ride is pending or awaiting_confirmation on
\* both sides.
C34_Witness ==
    /\ lastOp.op = "confirm" /\ lastOp.msg = "mutual"
    /\ \E r \in DOMAIN rides :
          /\ rides[r].status = "Pending"
          /\ \E i, k \in 1..Len(rides[r].conversations) :
                LET toPair  == rides[r].conversations[i]
                    toOther == rides[r].conversations[k]
                IN
                /\ toPair.status = "declined"
                /\ rides[toPair.rideId].status = "Confirmed"
                /\ lastOp.arg \in {c \in DOMAIN convs :
                                     toPair.rideId \in {convs[c].rideRequestA,
                                                        convs[c].rideRequestB}}
                /\ toOther.status \in ActiveStatuses
                /\ rides[toOther.rideId].status = "Pending"
                /\ refStatus(toOther.rideId, toOther.conversationId) \in ActiveStatuses

----------------------------------------------------------------------------
(* Two mutual confirmations that share a ride                             *)

\* The specification ConfirmRaceSpec: a ride holds two pairings and its
\* owner has confirmed both; the two counterparts send their confirm, each
\* the second confirmation of its conversation, at the same instant.  The
\* two calls run as the snapshot transactions of RaceSpec.
MaxConfirmRaceConvs == 2

\* The ride both conversations link, 0 when there is none.
sharedRide(c1, c2) ==
    LET S == {convs[c1].rideRequestA, convs[c1].rideRequestB}
                \cap {convs[c2].rideRequestA, convs[c2].rideRequestB}
    IN IF Cardinality(S) = 1 THEN CHOOSE r \in S : TRUE ELSE 0

\* The confirm of user u on conversation c1 and the confirm of user v on
\* conversation c2 arrive together; the ride the two conversations share
\* is awaiting_confirmation in both.
StartConfirmRace(u, v, c1, c2) ==
    /\ Quiescent
    /\ race = NoRace
    /\ c1 \in DOMAIN convs /\ c2 \in DOMAIN convs
    /\ c1 # c2
    /\ u # v
    /\ LET shared == sharedRide(c1, c2) IN
       /\ shared \in DOMAIN rides
       /\ refStatus(shared, c1) = "awaiting_confirmation"
       /\ refStatus(shared, c2) = "awaiting_confirmation"
       /\ otherRide(c1, shared) \in DOMAIN rides
       /\ otherRide(c2, shared) \in DOMAIN rides
       /\ rides[otherRide(c1, shared)].userId = u
       /\ rides[otherRide(c2, shared)].userId = v
       /\ race' = [phase |-> "confirms", shared |-> shared,
                   cids |-> [w \in {u, v} |-> IF w = u THEN c1 ELSE c2],
                   codes |-> [w \in {u, v} |-> 0],
                   rides0 |-> rides, retried |-> FALSE]
    /\ txn' = [txn EXCEPT ![u] = [op |-> "confirm", cid |-> c1, phase |-> "ready"],
                          ![v] = [op |-> "confirm", cid |-> c2, phase |-> "ready"]]
    /\ UNCHANGED <<rides, users, convs, created, lastOp, confirmedBy, now, sessions>>

ConfirmRaceInitiate(u, target) == InitiateWithin(u, target, MaxConfirmRaceConvs)

ConfirmRaceNext ==
    \/ \E u \in SpecUsers : CreateRide(u)
    \/ \E u \in SpecUsers, target \in RideIds : ConfirmRaceInitiate(u, target)
    \/ \E u \in SpecUsers, cid \in ConvInputs : Confirm(u, cid)
    \/ \E u \in SpecUsers, cid \in ConvInputs : Decline(u, cid)
    \/ \E u \in SpecUsers, v \in SpecUsers, c1 \in ConvInputs, c2 \in ConvInputs :
          StartConfirmRace(u, v, c1, c2)
    \/ \E u \in SpecUsers : BeginTxn(u)
    \/ \E u \in SpecUsers : CommitTxn(u)
    \/ \E u \in SpecUsers : AbortTxn(u)
    \/ \E u \in SpecUsers : ThrowTxn(u)

ConfirmRaceSpec == Init /\ [][ConfirmRaceNext]_vars

\* Both calls of the race have answered.
ConfirmRaceDone ==
    /\ race.phase = "confirms"
    /\ Quiescent
    /\ \A w \in DOMAIN race.codes : race.codes[w] # 0

\* C35: when two mutual-lock confirms on two different conversations that
\* share a ride run concurrently, the shared ride being
\* awaiting_confirmation in both, at most one of them commits as a mutual
\* lock and the other is rejected; in no reachable state does a ride hold
\* two confirmed refs.
C35_OneMutualLock ==
    /\ \A r \in DOMAIN rides : Cardinality(refsWith(rides[r], {"confirmed"})) <= 1
    /\ ConfirmRaceDone
       => \E w \in DOMAIN race.codes :
             LET l == CHOOSE x \in DOMAIN race.codes : x # w IN
             /\ race.codes[w] = 200
             /\ race.codes[l] \in {404, 409}
             /\ rides = confirmRide(race.rides0, convs, w, race.cids[w]).rides
             /\ refStatus(race.shared, race.cids[w]) = "confirmed"
             /\ refStatus(race.shared, race.cids[l]) = "declined"

\* The race is over: one confirm has locked the shared ride with its
\* counterpart, the other one, run again after a write conflict, was
\* rejected.
C35_Witness ==
    /\ ConfirmRaceDone
    /\ race.retried
    /\ rides[race.shared].status = "Confirmed"
    /\ \E w \in DOMAIN race.codes : race.codes[w] = 409

----------------------------------------------------------------------------
(* Documents that vanish through the TTL indexes                          *)

\* The specification VanishSpec: rides depart at different times, the
\* clock advances, and the TTL monitor removes rides whose departure time
\* and conversations whose expiresAt have passed while riders go on
\* confirming and declining.  Rider 1 departs five hours after the others,
\* so that its ride outlives its conversations.
VanishDeparture(u) == IF u = 1 THEN 420 ELSE 120
VanishClock == {0, 240}

\* The rider that sends the initiate calls.
VanishInitiators == {1}
MaxVanishConvs == 2

\* The TTL monitor removes a Conversation whose expiresAt has passed.
ExpireConversation(c) ==
    /\ Quiescent
    /\ c \in DOMAIN convs
    /\ convs[c].expiresAt <= now
    /\ convs' = [d \in DOMAIN convs \ {c} |-> convs[d]]
    /\ lastOp' = Response("expireConversation", 0, c, 0, "none", TRUE)
    /\ race' = NoRace
    /\ UNCHANGED <<rides, users, created, confirmedBy, txn, now, sessions>>

\* The _id of a new Conversation is fresh: no stored ride holds a ref to
\* a Conversation of that _id.  No ride is paired more than
\* MaxVanishConvs times.
VanishInitiate(u, target) ==
    /\ \A r \in DOMAIN rides :
          /\ findConvRef(rides[r], convIdOf(users[u].currentRideRequest, target)) = 0
          /\ r \in {users[u].currentRideRequest, target}
                => Len(rides[r].conversations) < MaxVanishConvs
    /\ InitiateWithin(u, target, MaxVanishConvs)

VanishNext ==
    \/ \E u \in SpecUsers : CreateRideWith(u, DefaultDestination, VanishDeparture(u))
    \/ \E u \in VanishInitiators, target \in RideIds : VanishInitiate(u, target)
    \/ \E u \in SpecUsers, cid \in ConvInputs : Confirm(u, cid)
    \/ \E u \in SpecUsers, cid \in ConvInputs : Decline(u, cid)
    \/ \E t \in VanishClock : Tick(t)
    \/ \E r \in RideIds : ExpireRide(r)
    \/ \E c \in ConvIds : ExpireConversation(c)

VanishSpec == Init /\ [][VanishNext]_vars

\* The refs of stored rides whose counterpart ride or whose Conversation
\* is no longer stored, as pairs of a ride and an index in its ref list.
orphanRefs ==
    {p \in (DOMAIN rides) \X (1..MaxVanishConvs) :
        /\ p[2] <= Len(rides[p[1]].conversations)
        /\ LET ref == rides[p[1]].conversations[p[2]] IN
           \/ ref.rideId \notin DOMAIN rides
           \/ ref.conversationId \notin DOMAIN convs}

\* C36: if the counterpart ride or the Conversation of a ref has vanished
\* through external expiry, confirm and decline on that conversation
\* return not_found and change nothing: the surviving ride's ref keeps its
\* status and the surviving ride keeps its status.
C36_VanishedIsNotFound ==
    \A p \in orphanRefs : \A u \in Users :
        LET ref == rides[p[1]].conversations[p[2]]
            c == confirmRide(rides, convs, u, ref.conversationId)
            d == declineConversation(rides, convs, u, ref.conversationId)
        IN /\ c.code = 404 /\ c.rides = rides
           /\ d.code = 404 /\ d.rides = rides
           /\ c.rides[p[1]].conversations[p[2]].status = ref.status
           /\ d.rides[p[1]].status = rides[p[1]].status

\* A Pending ride holds a pending or awaiting_confirmation ref whose
\* counterpart ride has expired while the Conversation is still stored,
\* and another one whose Conversation has expired while the counterpart
\* is still stored.
C36_Witness ==
    \E r \in DOMAIN rides :
        /\ rides[r].status = "Pending"
        /\ \E i, k \in 1..Len(rides[r].conversations) :
              LET gone == rides[r].conversations[i]
                  kept == rides[r].conversations[k]
              IN /\ gone.status \in ActiveStatuses
                 /\ gone.rideId \notin DOMAIN rides
                 /\ gone.conversationId \in DOMAIN convs
                 /\ kept.status \in ActiveStatuses
                 /\ kept.rideId \in DOMAIN rides
                 /\ kept.conversationId \notin DOMAIN convs

----------------------------------------------------------------------------
(* The status Confirmed is stable                                         *)

\* The ride to which ride r holds a confirmed ref, 0 when there is none.
confirmedCounterpart(r) ==
    LET S == {i \in 1..Len(rides[r].conversations) :
                 rides[r].conversations[i].status = "confirmed"}
    IN IF S = {} THEN 0 ELSE rides[r].conversations[CHOOSE i \in S : TRUE].rideId

\* The step commits the deleteRide of the owner of ride cp: the owner is
\* unlinked from cp.
deletesRide(cp) ==
    /\ cp \in DOMAIN rides
    /\ users[rides[cp].userId].currentRideRequest = cp
    /\ users'[rides[cp].userId].currentRideRequest = 0

\* C37: once a ride's status is Confirmed it stays Confirmed in every
\* later state in which the ride exists, unless its confirmed counterpart
\* performs deleteRide, which returns it to Available: no initiate,
\* confirm or decline by any actor, and no cascade or deleteRide of a
\* third ride, changes a Confirmed ride's status.
C37_ConfirmedIsStable ==
    [][\A r \in DOMAIN rides \cap DOMAIN rides' :
          rides[r].status = "Confirmed"
          => IF deletesRide(confirmedCounterpart(r))
             THEN rides'[r].status = "Available"
             ELSE rides'[r].status = "Confirmed"]_vars

\* A third ride, whose pairing with a Confirmed ride the cascade had
\* declined, has just been deleted by its owner: the Confirmed ride is
\* still Confirmed.
C37_Witness ==
    /\ lastOp.op = "deleteRide"
    /\ \E r \in DOMAIN rides :
          /\ rides[r].status = "Confirmed"
          /\ confirmedCounterpart(r) \in DOMAIN rides
          /\ \E i \in 1..Len(rides[r].conversations) :
                /\ rides[r].conversations[i].rideId = lastOp.arg
                /\ rides[r].conversations[i].status = "declined"

----------------------------------------------------------------------------
(* Calls that arrive between the commit of deleteRide and the removal     *)

\* The rides whose deleteRide transaction has committed and whose document
\* is still stored.
unlinkedRides ==
    {r \in DOMAIN rides : \E w \in Users : txn[w].op = "deleteRide" /\ txn[w].rideId = r}

\* C38: after deleteRide's transaction for ride R has committed (R is
\* unlinked from its owner) and before R is physically removed, no
\* initiate naming R as target and no confirm or decline on one of R's
\* conversations succeeds, so no ride acquires a new pending ref to R and
\* no ref changes status against R after that commit.  Stated of every
\* call that can arrive in such a state.
C38_NoCallAgainstUnlinkedRide ==
    \A R \in unlinkedRides :
        /\ \A u \in Users :
              LET res == initiateConversation(rides, users, convs, u, R,
                                              convIdOf(users[u].currentRideRequest, R))
              IN res.code # 201 /\ res.rides = rides /\ res.convs = convs
        /\ \A cid \in DOMAIN convs :
              R \in {convs[cid].rideRequestA, convs[cid].rideRequestB}
              => \A u \in Users :
                    LET c == confirmRide(rides, convs, u, cid)
                        d == declineConversation(rides, convs, u, cid)
                    IN /\ c.code # 200 /\ c.rides = rides
                       /\ d.code # 200 /\ d.rides = rides

----------------------------------------------------------------------------
(* find followed by initiate                                              *)

\* C39: in a state with no operation in flight, for every ride X returned
\* by find(R), an initiate(R, X) executed immediately afterwards
\* succeeds: find never returns a ride with which R already has a
\* Conversation that makes initiate fail as a duplicate.
C39_FoundCanBeInitiated ==
    Quiescent =>
       \A u \in Users :
          LET res == findMatchesForCurrentRide(rides, users, u) IN
          res.code = 200 =>
             \A list \in res.lists : \A X \in elements(list) :
                initiateConversation(rides, users, convs, u, X,
                                     convIdOf(users[u].currentRideRequest, X)).code = 201

\* C39 as the code has it: in a state with no operation in flight, for
\* every ride X returned by find(R), an initiate(R, X) executed
\* immediately afterwards succeeds exactly when no Conversation links R
\* and X and R is not Confirmed; otherwise it is rejected as a conflict
\* and changes nothing.
C39_FoundUnpairedCanBeInitiated ==
    Quiescent =>
       \A u \in Users :
          LET res == findMatchesForCurrentRide(rides, users, u)
              R == users[u].currentRideRequest
          IN
          res.code = 200 =>
             \A list \in res.lists : \A X \in elements(list) :
                LET i == initiateConversation(rides, users, convs, u, X, convIdOf(R, X)) IN
                /\ i.code = 201
                      <=> (convsBetween(R, X) = {}
                              /\ rides[R].status # "Confirmed")
                /\ i.code # 201 => i.code = 409 /\ i.rides = rides /\ i.convs = convs

\* A findMatches call has answered with two rides: the requester's ride
\* has a Conversation with one of them, whose refs are pending, and none
\* with the other.
C39_Witness ==
    /\ lastOp.op = "findMatches"
    /\ lastOp.arg \in DOMAIN rides
    /\ \E k \in 1..Len(lastOp.matches) :
          /\ convsBetween(lastOp.arg, lastOp.matches[k]) # {}
          /\ \E j \in 1..Len(rides[lastOp.arg].conversations) :
                /\ rides[lastOp.arg].conversations[j].rideId = lastOp.matches[k]
                /\ rides[lastOp.arg].conversations[j].status = "pending"
    /\ \E k \in 1..Len(lastOp.matches) :
          convsBetween(lastOp.arg, lastOp.matches[k]) = {}

----------------------------------------------------------------------------
(* Sessions opened before a conversation exists                           *)

\* The number of events for conversation c in the list received.
eventsFor(received, c) ==
    Cardinality({i \in 1..Len(received) : received[i].conversationId = c})

\* C40: a session that was established before a conversation was
\* initiated is not subscribed to that conversation: events published for
\* it are not delivered to that session until the session is started
\* again, even though the session's owner is a participant.  Stated of
\* every step of a session that stays open (the initiate that creates the
\* conversation joins no room, no later call does, and an event for a
\* conversation whose room the session has not joined does not reach it)
\* and of the step that starts the session again.
C40_OpenSessionMissesNewConversation ==
    [][\A u \in Users :
          /\ (sessions[u].connected /\ sessions'[u].connected)
             => /\ \A c \in DOMAIN convs' \ DOMAIN convs : c \notin sessions'[u].rooms
                /\ \A c \in ConvIds \ sessions[u].rooms :
                      /\ c \notin sessions'[u].rooms
                      /\ eventsFor(sessions'[u].received, c)
                            = eventsFor(sessions[u].received, c)
          /\ (~sessions[u].connected /\ sessions'[u].connected)
             => convsOfCurrentRide(u, ActiveStatuses) \subseteq sessions'[u].rooms]_vars

\* A rider whose session was open before its ride was paired is still
\* connected; the counterpart has just deleted its ride, the event for
\* their conversation was published, and the session has received nothing.
C40_Witness ==
    \E u \in Users :
        /\ sessions[u].connected
        /\ lastOp.op = "deleteRide"
        /\ users[u].currentRideRequest \in DOMAIN rides
        /\ \E k \in 1..Len(lastOp.events) :
              /\ lastOp.events[k].conversationId \notin sessions[u].rooms
              /\ findConvRef(rides[users[u].currentRideRequest],
                             lastOp.events[k].conversationId) # 0
        /\ sessions[u].received = <<>>

============================================================================
